---- MODULE Spec2Model ----
(***************************************************************************)
(* A model of the kenpom-client prediction engine: the matchup feature     *)
(* extractor (matchup.py), the home-court-advantage snapshot and its       *)
(* module-level cache (matchup.py, hca_scraper.py), the margin / variance  *)
(* engine (prediction.py) and the snapshot enrichment (snapshot.py).       *)
(*                                                                         *)
(* Numbers are fixed-point integers, so that every division of the code    *)
(* is exact in the model:                                                  *)
(*   rating fields, sigma, HCA     tenths of a point        (67.5 -> 675)  *)
(*   coefficients                  thousandths              (0.10 -> 100)  *)
(*   margins and adjustments       1/300000 of a point      (AdjUnit)      *)
(*   variances                     millionths                              *)
(*   sigma_game, sigma_baseline    thousandths of a point                  *)
(*   probabilities                 ten-thousandths                         *)
(* A Python value is a record [k, v]: k is "num" (v the number), "none"    *)
(* (None), "nan" (float NaN) or "absent" (no such key in the Series).      *)
(* A Python call returns a record with a field raised: "" for a normal     *)
(* return, else the name of the exception that propagates.                 *)
(***************************************************************************)
EXTENDS Integers, Sequences, FiniteSets, TLC

VARIABLES
    disk,       \* data/kenpom_hca_*.json: -1 no data dir, 0 no file, i the newest file is HcaFiles[i]
    cache,      \* matchup._hca_snapshot_cache: 0 is None, i the snapshot parsed from HcaFiles[i]
    ret,        \* the last call of the sequential API: its name, arguments and return value
    seen,       \* one earlier predict_game call (arguments and return value), remembered for comparison
    tpc,        \* threads: each thread's position in load_hca_snapshot
    tret,       \* threads: the snapshot object each thread's call returned (0: None or not yet returned)
    tcache,     \* threads: _hca_snapshot_cache as an object identity (0 is None)
    nparsed,    \* threads: how many times the snapshot file was read and parsed (HCASnapshot.from_json)
    client      \* the KenPomClient: its settings, cache directory, rate limiter and clock (0: none constructed)

vars == <<disk, cache, ret, seen, tpc, tret, tcache, nparsed, client>>
threadVars == <<tpc, tret, tcache, nparsed>>

----------------------------------------------------------------------------
(* Python values *)

Num(x) == [k |-> "num", v |-> x]
None == [k |-> "none", v |-> 0]
NaN == [k |-> "nan", v |-> 0]
Absent == [k |-> "absent", v |-> 0]

Abs(x) == IF x < 0 THEN 0 - x ELSE x
Max2(a, b) == IF a >= b THEN a ELSE b
Min2(a, b) == IF a <= b THEN a ELSE b

\* math.copysign(mag, sign) for a nonzero sign argument and for +0.0
copysign(mag, sign) == IF sign < 0 THEN 0 - Abs(mag) ELSE Abs(mag)

\* math.sqrt on a fixed-point argument: the integer square root (the result is
\* rounded down to the resolution of the result's unit), by bisection.
RECURSIVE SqrtBisect(_, _, _)
SqrtBisect(n, lo, hi) ==
    IF hi - lo <= 1 THEN lo
    ELSE LET mid == (lo + hi) \div 2
         IN IF mid * mid <= n THEN SqrtBisect(n, mid, hi) ELSE SqrtBisect(n, lo, mid)

sqrt(n) == SqrtBisect(n, 0, Min2(n + 1, 46341))

----------------------------------------------------------------------------
(* Units *)

AdjUnit == 300 * 1000          \* margin units per point
DeciToAdj == AdjUnit \div 10    \* margin units per tenth of a point
MilliToAdj == AdjUnit \div 1000 \* margin units per thousandth of a point

----------------------------------------------------------------------------
(* matchup.py: constants and _safe_get *)

DEFAULT_HCA == 35

Fields == {"team", "adj_em", "adj_oe", "adj_de", "adj_tempo", "efg_pct", "defg_pct",
           "to_pct", "dto_pct", "or_pct", "dor_pct", "off_fg3", "sigma"}

\* pandas Series.get(key): None when the key is absent
SeriesGet(row, key) == IF row[key].k = "absent" THEN None ELSE row[key]

\* pandas Series[key]: KeyError when the key is absent
SeriesItem(row, key) == IF row[key].k = "absent" THEN [k |-> "KeyError", v |-> 0] ELSE row[key]

\* float(value): TypeError on None
PyFloat(value) == IF value.k = "num" THEN value ELSE [k |-> "TypeError", v |-> 0]

\* _safe_get testing for NaN only, not for None
_safe_get_nan_only(row, key, default) ==
    LET value == SeriesGet(row, key)
    IN IF value.k = "nan" THEN Num(default) ELSE PyFloat(value)

_safe_get(row, key, default) ==
    LET value == SeriesGet(row, key)
    IN IF value.k = "none" \/ value.k = "nan" THEN Num(default) ELSE PyFloat(value)

----------------------------------------------------------------------------
(* Team names are sequences of characters; str.lower() maps each character *)

LowerChar(c) ==
    CASE c = "K" -> "k"
      [] c = "U" -> "u"
      [] c = "S" -> "s"
      [] OTHER -> c

lower(str) == [i \in 1..Len(str) |-> LowerChar(str[i])]

\* Python's  a in b  on strings: a occurs in b as a contiguous substring
IsSubstring(a, b) ==
    \E i \in 0..(Len(b) - Len(a)) : SubSeq(b, i + 1, i + Len(a)) = a

----------------------------------------------------------------------------
(* hca_scraper.py: HCASnapshot *)

\* The loops over self.teams return at the first entry that matches: the least of
\* the matching indices, 0 when none matches
FirstIndex(matching) ==
    IF matching = {} THEN 0 ELSE CHOOSE i \in matching : \A j \in matching : i <= j

\* get_team_hca with the two loops in the other order (partial match first)
get_team_hca_partial_first(snapshot, team_name) ==
    LET team_lower == lower(team_name)
        teams == snapshot.teams
        Exact(i) == lower(teams[i].team) = team_lower
        Partial(i) == \/ IsSubstring(team_lower, lower(teams[i].team))
                      \/ IsSubstring(lower(teams[i].team), team_lower)
        e == FirstIndex({i \in 1..Len(teams) : Exact(i)})
        p == FirstIndex({i \in 1..Len(teams) : Partial(i)})
    IN IF p # 0 THEN Num(teams[p].hca)
       ELSE IF e # 0 THEN Num(teams[e].hca)
       ELSE None

\* HCASnapshot.get_team_hca: the first exact match ignoring case, else the first
\* entry one of whose name and the argument contains the other, else None
get_team_hca(snapshot, team_name) ==
    LET team_lower == lower(team_name)
        teams == snapshot.teams
        Exact(i) == lower(teams[i].team) = team_lower
        Partial(i) == \/ IsSubstring(team_lower, lower(teams[i].team))
                      \/ IsSubstring(lower(teams[i].team), team_lower)
        e == FirstIndex({i \in 1..Len(teams) : Exact(i)})
        p == FirstIndex({i \in 1..Len(teams) : Partial(i)})
    IN IF e # 0 THEN Num(teams[e].hca)
       ELSE IF p # 0 THEN Num(teams[p].hca)
       ELSE None

\* The snapshot files that data/ may hold. json_ok: HCASnapshot.from_json parses the
\* text; date_ok: the date in the file's name is a calendar date (strptime accepts it).
HcaFiles == <<
    [json_ok |-> TRUE, date_ok |-> TRUE, national_avg_hca |-> 32,
     teams |-> << [team |-> <<"K", "S">>, hca |-> 38], [team |-> <<"K">>, hca |-> 45] >>],
    [json_ok |-> TRUE, date_ok |-> TRUE, national_avg_hca |-> 30,
     teams |-> << [team |-> <<"U">>, hca |-> 50] >>],
    [json_ok |-> FALSE, date_ok |-> TRUE, national_avg_hca |-> 0, teams |-> << >>],
    [json_ok |-> TRUE, date_ok |-> FALSE, national_avg_hca |-> 32,
     teams |-> << [team |-> <<"K", "S">>, hca |-> 38], [team |-> <<"K">>, hca |-> 45] >>]
  >>

NoDataDir == 0 - 1
DiskStates == {NoDataDir} \cup (0..Len(HcaFiles))

----------------------------------------------------------------------------
(* matchup.py: the snapshot cache *)

\* load_hca_snapshot, run to completion. ret: the snapshot returned (0 is None);
\* cache: _hca_snapshot_cache after the call.
load_hca_snapshot(c, d) ==
    IF c # 0 THEN [ret |-> c, cache |-> c]
    ELSE IF d = NoDataDir THEN [ret |-> 0, cache |-> c]
    ELSE IF d = 0 THEN [ret |-> 0, cache |-> c]
    ELSE IF ~HcaFiles[d].json_ok THEN [ret |-> 0, cache |-> c]
    ELSE IF ~HcaFiles[d].date_ok THEN [ret |-> 0, cache |-> d]
    ELSE [ret |-> d, cache |-> d]

\* calculate_home_court_factor. val: the factor in tenths; cache: the cache afterwards.
calculate_home_court_factor(home, hca_snapshot, c, d) ==
    LET team_name == SeriesGet(home, "team")
        loaded == IF hca_snapshot = 0 THEN load_hca_snapshot(c, d)
                  ELSE [ret |-> hca_snapshot, cache |-> c]
    IN IF team_name.k = "none" THEN [val |-> DEFAULT_HCA, cache |-> c]
       ELSE IF loaded.ret = 0 THEN [val |-> DEFAULT_HCA, cache |-> loaded.cache]
       ELSE LET team_hca == get_team_hca(HcaFiles[loaded.ret], team_name.v)
            IN IF team_hca.k # "none" THEN [val |-> team_hca.v, cache |-> loaded.cache]
               ELSE [val |-> HcaFiles[loaded.ret].national_avg_hca, cache |-> loaded.cache]

----------------------------------------------------------------------------
(* matchup.py: calculate_matchup_features *)

\* The deadband with the comparison of line 161 taken as >=
PaceDeadband_inclusive == 50 - 1

PaceDeadband == 50

\* The threshold with the comparison of line 178 taken as >=
StyleThreshold_inclusive == 100 - 1

StyleThreshold == 100

\* The MatchupFeatures of a call that raised (no value is returned)
NoFeatures ==
    [delta_adj_em |-> 0, delta_adj_oe |-> 0, delta_adj_de |-> 0, delta_tempo |-> 0,
     shooting_advantage |-> 0, shooting_defense_advantage |-> 0,
     turnover_advantage |-> 0, rebounding_advantage |-> 0,
     tempo_mismatch |-> 0, pace_control |-> "", home_3pt_reliance |-> 0,
     away_3pt_reliance |-> 0, style_clash |-> "", home_court_factor |-> 0,
     rest_advantage |-> None, travel_distance |-> None, feature_version |-> ""]

\* calculate_matchup_features(away, home) with game_context = None.
\* raised: "" or the exception; mf: the MatchupFeatures; cache: the cache afterwards.
calculate_matchup_features(away, home, c, d) ==
    LET a_em == _safe_get(away, "adj_em", 0)          h_em == _safe_get(home, "adj_em", 0)
        a_oe == _safe_get(away, "adj_oe", 1050)       h_oe == _safe_get(home, "adj_oe", 1050)
        a_de == _safe_get(away, "adj_de", 1000)       h_de == _safe_get(home, "adj_de", 1000)
        a_tempo == _safe_get(away, "adj_tempo", 680)  h_tempo == _safe_get(home, "adj_tempo", 680)
        away_efg == _safe_get(away, "efg_pct", 500)
        home_defg == _safe_get(home, "defg_pct", 500)
        home_efg == _safe_get(home, "efg_pct", 500)
        away_defg == _safe_get(away, "defg_pct", 500)
        home_dto == _safe_get(home, "dto_pct", 200)
        away_to == _safe_get(away, "to_pct", 200)
        away_or == _safe_get(away, "or_pct", 300)
        home_dor == _safe_get(home, "dor_pct", 300)
        home_3pt_reliance == _safe_get(home, "off_fg3", 300)
        away_3pt_reliance == _safe_get(away, "off_fg3", 300)
        got == {a_em, h_em, a_oe, h_oe, a_de, h_de, a_tempo, h_tempo, away_efg, home_defg,
                home_efg, away_defg, home_dto, away_to, away_or, home_dor,
                home_3pt_reliance, away_3pt_reliance}
        delta_tempo == a_tempo.v - h_tempo.v
        tempo_mismatch == Abs(delta_tempo)
        pace_control == IF tempo_mismatch > PaceDeadband
                        THEN (IF delta_tempo > 0 THEN "away_controls" ELSE "home_controls")
                        ELSE "neutral"
        three_pt_diff == Abs(home_3pt_reliance.v - away_3pt_reliance.v)
        style_clash == IF three_pt_diff > StyleThreshold THEN "3pt_vs_interior" ELSE "similar"
        hcf == calculate_home_court_factor(home, 0, c, d)
    IN IF \E g \in got : g.k # "num"
       THEN [raised |-> "TypeError", mf |-> NoFeatures, cache |-> c]
       ELSE [raised |-> "",
             mf |-> [delta_adj_em |-> a_em.v - h_em.v,
                     delta_adj_oe |-> a_oe.v - h_oe.v,
                     delta_adj_de |-> a_de.v - h_de.v,
                     delta_tempo |-> delta_tempo,
                     shooting_advantage |-> away_efg.v - home_defg.v,
                     shooting_defense_advantage |-> home_efg.v - away_defg.v,
                     turnover_advantage |-> home_dto.v - away_to.v,
                     rebounding_advantage |-> away_or.v - home_dor.v,
                     tempo_mismatch |-> tempo_mismatch,
                     pace_control |-> pace_control,
                     home_3pt_reliance |-> home_3pt_reliance.v,
                     away_3pt_reliance |-> away_3pt_reliance.v,
                     style_clash |-> style_clash,
                     home_court_factor |-> hcf.val,
                     rest_advantage |-> None,
                     travel_distance |-> None,
                     feature_version |-> "1.0"],
             cache |-> hcf.cache]

----------------------------------------------------------------------------
(* prediction.py: normal_cdf *)

\* Python's float division truncated to the result's resolution (toward zero)
Quot(a, b) ==
    LET q == Abs(a) \div Abs(b)
    IN IF (a < 0) = (b < 0) THEN q ELSE 0 - q

\* Phi at 0.0, 0.5, ..., 4.0 in ten-thousandths, truncated
PhiTable == <<5000, 6914, 8413, 9331, 9772, 9937, 9986, 9997, 9999>>

\* In double precision (1 + erf(x / sqrt 2)) / 2 is exactly 1.0 from x = 8.25 on and
\* exactly 0.0 from x = -8.38 down (hundredths)
SaturatesHigh == 825
SaturatesLow == 838

\* normal_cdf(x) = (1 + erf(x / sqrt 2)) / 2, x in hundredths, the result in
\* ten-thousandths: the tabulated values, interpolated linearly between them. A result
\* is truncated toward 0.5, so that 10000 and 0 stand for exactly 1.0 and exactly 0.0.
normal_cdf(x) ==
    LET ax == Abs(x)
        upper == IF ax >= 400 THEN PhiTable[9]
                 ELSE LET i == (ax \div 50) + 1
                          r == ax % 50
                      IN PhiTable[i] + ((PhiTable[i + 1] - PhiTable[i]) * r) \div 50
    IN IF x >= SaturatesHigh THEN 10000
       ELSE IF x <= 0 - SaturatesLow THEN 0
       ELSE IF x >= 0 THEN upper
       ELSE 10000 - upper

----------------------------------------------------------------------------
(* prediction.py: coefficients *)

CoefKeys == {"pace_control_per_5_tempo", "shooting_matchup_per_5_efg",
             "turnover_battle_per_2_to", "rebounding_edge_per_3_or",
             "max_total_adjustment", "tempo_mismatch_factor",
             "style_clash_3pt_vs_interior_boost", "style_clash_similar_boost"}

\* A dict of coefficients: each key is Num(thousandths) or Absent
Mapping(pace, shoot, turn, reb, cap, tempo, clash, similar) ==
    [key \in CoefKeys |->
        CASE key = "pace_control_per_5_tempo" -> pace
          [] key = "shooting_matchup_per_5_efg" -> shoot
          [] key = "turnover_battle_per_2_to" -> turn
          [] key = "rebounding_edge_per_3_or" -> reb
          [] key = "max_total_adjustment" -> cap
          [] key = "tempo_mismatch_factor" -> tempo
          [] key = "style_clash_3pt_vs_interior_boost" -> clash
          [] key = "style_clash_similar_boost" -> similar]

HEURISTIC_COEFFICIENTS ==
    Mapping(Num(100), Num(60), Num(100), Num(33), Num(2000), Absent, Absent, Absent)

\* VARIANCE_COEFFICIENTS without the boost of a style clash
VARIANCE_COEFFICIENTS_flat ==
    Mapping(Absent, Absent, Absent, Absent, Absent, Num(15), Num(1000), Num(1000))

VARIANCE_COEFFICIENTS ==
    Mapping(Absent, Absent, Absent, Absent, Absent, Num(15), Num(1100), Num(1000))

\* The empty dict, which  coefficients or HEURISTIC_COEFFICIENTS  treats like None
EmptyMapping == [key \in CoefKeys |-> Absent]

\* dict[key]: KeyError when the key is absent
DictItem(coef, key) == IF coef[key].k = "absent" THEN [k |-> "KeyError", v |-> 0] ELSE coef[key]

\* dict.get(key, default)
DictGet(coef, key, default) == IF coef[key].k = "absent" THEN Num(default) ELSE coef[key]

----------------------------------------------------------------------------
(* prediction.py: the baseline and the four adjustments, in margin units *)

\* calculate_margin_baseline with the constant 3.5 in place of its third argument
calculate_margin_baseline_constant(home_adj_em, away_adj_em, home_court_advantage) ==
    (home_adj_em - away_adj_em + DEFAULT_HCA) * DeciToAdj

calculate_margin_baseline(home_adj_em, away_adj_em, home_court_advantage) ==
    (home_adj_em - away_adj_em + home_court_advantage) * DeciToAdj

\* (away_sigma + home_sigma) / 2.0, in thousandths
calculate_sigma_baseline(away_sigma, home_sigma) == (away_sigma + home_sigma) * 50

\* _adjust_for_pace with the signs of the two branches exchanged
_adjust_for_pace_swapped(matchup_features, coefficients) ==
    LET c == DictItem(coefficients, "pace_control_per_5_tempo")
        pace_diff == Abs(matchup_features.delta_tempo)
    IN IF matchup_features.pace_control = "home_controls"
       THEN (IF c.k = "num" THEN Num(0 - pace_diff * c.v * 6) ELSE c)
       ELSE IF matchup_features.pace_control = "away_controls"
       THEN (IF c.k = "num" THEN Num(pace_diff * c.v * 6) ELSE c)
       ELSE Num(0)

\* (pace_diff / 5.0) * coefficient, signed by who controls the pace
_adjust_for_pace(matchup_features, coefficients) ==
    LET c == DictItem(coefficients, "pace_control_per_5_tempo")
        pace_diff == Abs(matchup_features.delta_tempo)
    IN IF matchup_features.pace_control = "home_controls"
       THEN (IF c.k = "num" THEN Num(pace_diff * c.v * 6) ELSE c)
       ELSE IF matchup_features.pace_control = "away_controls"
       THEN (IF c.k = "num" THEN Num(0 - pace_diff * c.v * 6) ELSE c)
       ELSE Num(0)

\* (net_shooting / 5.0) * coefficient
_adjust_for_shooting(matchup_features, coefficients) ==
    LET c == DictItem(coefficients, "shooting_matchup_per_5_efg")
        net_shooting == matchup_features.shooting_defense_advantage
                        - matchup_features.shooting_advantage
    IN IF c.k = "num" THEN Num(net_shooting * c.v * 6) ELSE c

\* (turnover_advantage / 2.0) * coefficient
_adjust_for_turnovers(matchup_features, coefficients) ==
    LET c == DictItem(coefficients, "turnover_battle_per_2_to")
    IN IF c.k = "num" THEN Num(matchup_features.turnover_advantage * c.v * 15) ELSE c

\* -(rebounding_advantage / 3.0) * coefficient
_adjust_for_rebounding(matchup_features, coefficients) ==
    LET c == DictItem(coefficients, "rebounding_edge_per_3_or")
    IN IF c.k = "num" THEN Num(0 - matchup_features.rebounding_advantage * c.v * 10) ELSE c

NoBreakdown ==
    [pace_control |-> 0, shooting_matchup |-> 0, turnover_battle |-> 0, rebounding_edge |-> 0]

\* The cap left out
ApplyCap_none(total_adjustment, max_adjustment) == total_adjustment

\* The cap applied whether or not the total exceeds it
ApplyCap_always(total_adjustment, max_adjustment) ==
    copysign(max_adjustment, total_adjustment)

\* The hard cap of calculate_margin_enhanced (lines 617-619)
ApplyCap(total_adjustment, max_adjustment) ==
    IF Abs(total_adjustment) > max_adjustment
    THEN copysign(max_adjustment, total_adjustment)
    ELSE total_adjustment

\* calculate_margin_enhanced with the components rescaled to the cap when it applies
calculate_margin_enhanced_rescaled(home_adj_em, away_adj_em, matchup_features, coefficients) ==
    LET coef == IF coefficients = EmptyMapping THEN HEURISTIC_COEFFICIENTS ELSE coefficients
        margin_baseline == calculate_margin_baseline(home_adj_em, away_adj_em,
                                                     matchup_features.home_court_factor)
        pace == _adjust_for_pace(matchup_features, coef)
        shooting == _adjust_for_shooting(matchup_features, coef)
        turnovers == _adjust_for_turnovers(matchup_features, coef)
        rebounding == _adjust_for_rebounding(matchup_features, coef)
        total_adjustment == pace.v + shooting.v + turnovers.v + rebounding.v
        max_adjustment == DictGet(coef, "max_total_adjustment", 2000).v * MilliToAdj
        Scale(x) == IF Abs(total_adjustment) > max_adjustment
                    THEN Quot(x * (max_adjustment \div 1000), Abs(total_adjustment) \div 1000)
                    ELSE x
    IN IF \E a \in {pace, shooting, turnovers, rebounding} : a.k # "num"
       THEN [raised |-> "KeyError", margin_enhanced |-> 0, adjustments |-> NoBreakdown]
       ELSE [raised |-> "",
             margin_enhanced |-> margin_baseline + ApplyCap(total_adjustment, max_adjustment),
             adjustments |-> [pace_control |-> Scale(pace.v), shooting_matchup |-> Scale(shooting.v),
                              turnover_battle |-> Scale(turnovers.v),
                              rebounding_edge |-> Scale(rebounding.v)]]

\* calculate_margin_enhanced; coefficients is a mapping, or None as EmptyMapping.
\* raised, margin_enhanced (margin units), adjustments (the breakdown, margin units)
calculate_margin_enhanced(home_adj_em, away_adj_em, matchup_features, coefficients) ==
    LET coef == IF coefficients = EmptyMapping THEN HEURISTIC_COEFFICIENTS ELSE coefficients
        margin_baseline == calculate_margin_baseline(home_adj_em, away_adj_em,
                                                     matchup_features.home_court_factor)
        pace == _adjust_for_pace(matchup_features, coef)
        shooting == _adjust_for_shooting(matchup_features, coef)
        turnovers == _adjust_for_turnovers(matchup_features, coef)
        rebounding == _adjust_for_rebounding(matchup_features, coef)
        total_adjustment == pace.v + shooting.v + turnovers.v + rebounding.v
        max_adjustment == DictGet(coef, "max_total_adjustment", 2000).v * MilliToAdj
    IN IF \E a \in {pace, shooting, turnovers, rebounding} : a.k # "num"
       THEN [raised |-> "KeyError", margin_enhanced |-> 0, adjustments |-> NoBreakdown]
       ELSE [raised |-> "",
             margin_enhanced |-> margin_baseline + ApplyCap(total_adjustment, max_adjustment),
             adjustments |-> [pace_control |-> pace.v, shooting_matchup |-> shooting.v,
                              turnover_battle |-> turnovers.v, rebounding_edge |-> rebounding.v]]

----------------------------------------------------------------------------
(* prediction.py: calculate_sigma_game *)

\* The floor of lines 674-676 taken with min instead of max
FloorSigma_min(sigma_game, away_sigma, home_sigma) ==
    Min2(sigma_game, Min2(away_sigma * 100, home_sigma * 100))

\* max(sigma_game, away_sigma, home_sigma), in thousandths (lines 674-676)
FloorSigma(sigma_game, away_sigma, home_sigma) ==
    Max2(sigma_game, Max2(away_sigma * 100, home_sigma * 100))

\* calculate_sigma_game that ignores style_clash
calculate_sigma_game_styleless(away_sigma, home_sigma, matchup_features) ==
    LET coef == VARIANCE_COEFFICIENTS
        var_away == away_sigma * away_sigma * 10000
        var_home == home_sigma * home_sigma * 10000
        tm == matchup_features.tempo_mismatch
        var_interaction == (DictItem(coef, "tempo_mismatch_factor").v * tm * tm * 1000) \div 100
        total_variance == var_away + var_home + var_interaction
    IN [sigma_game |-> FloorSigma(sqrt(total_variance), away_sigma, home_sigma),
        components |-> [var_away |-> var_away, var_home |-> var_home,
                        var_interaction |-> var_interaction, var_total |-> total_variance]]

\* calculate_sigma_game: sigma_game in thousandths, the variances in millionths.
\* The coefficients are the module's VARIANCE_COEFFICIENTS (line 652).
calculate_sigma_game(away_sigma, home_sigma, matchup_features) ==
    LET coef == VARIANCE_COEFFICIENTS
        var_away == away_sigma * away_sigma * 10000
        var_home == home_sigma * home_sigma * 10000
        tm == matchup_features.tempo_mismatch
        style_multiplier ==
            IF matchup_features.style_clash = "3pt_vs_interior"
            THEN DictItem(coef, "style_clash_3pt_vs_interior_boost").v
            ELSE DictItem(coef, "style_clash_similar_boost").v
        \* tempo_var * style_multiplier
        var_interaction ==
            (DictItem(coef, "tempo_mismatch_factor").v * tm * tm * style_multiplier) \div 100
        total_variance == var_away + var_home + var_interaction
    IN [sigma_game |-> FloorSigma(sqrt(total_variance), away_sigma, home_sigma),
        components |-> [var_away |-> var_away, var_home |-> var_home,
                        var_interaction |-> var_interaction, var_total |-> total_variance]]

----------------------------------------------------------------------------
(* prediction.py: predict_game *)

NoPrediction ==
    [margin_baseline |-> 0, sigma_baseline |-> 0, win_prob_baseline |-> 0,
     margin_enhanced |-> 0, margin_adjustment |-> 0, adjustment_breakdown |-> NoBreakdown,
     sigma_game |-> 0,
     sigma_components |-> [var_away |-> 0, var_home |-> 0, var_interaction |-> 0, var_total |-> 0],
     win_prob_enhanced |-> 0, prediction_version |-> ""]

\* mf in a result is the MatchupFeatures the prediction was computed from
Raise(exc, c) == [raised |-> exc, pred |-> NoPrediction, mf |-> NoFeatures, cache |-> c]

\* The exception of an arithmetic expression over Series items: KeyError when one is
\* absent (the subscript raises), TypeError when one is None, "" when all are numbers
ItemsRaise(items) ==
    IF \E x \in items : x.k = "KeyError" THEN "KeyError"
    ELSE IF \E x \in items : x.k # "num" THEN "TypeError"
    ELSE ""

\* predict_game, lines 741-757: the MarginPrediction, after the two divisions of
\* lines 728 and 739 (ZeroDivisionError on a zero sigma)
MakePrediction(margin_baseline, sigma_baseline, enhanced, game, mf, c) ==
    IF sigma_baseline = 0 THEN Raise("ZeroDivisionError", c)
    ELSE IF enhanced.raised # "" THEN Raise(enhanced.raised, c)
    ELSE IF game.sigma_game = 0 THEN Raise("ZeroDivisionError", c)
    ELSE [raised |-> "",
          pred |-> [margin_baseline |-> margin_baseline,
                    sigma_baseline |-> sigma_baseline,
                    win_prob_baseline |->
                        normal_cdf(Quot(margin_baseline, 3 * sigma_baseline)),
                    margin_enhanced |-> enhanced.margin_enhanced,
                    margin_adjustment |-> enhanced.margin_enhanced - margin_baseline,
                    adjustment_breakdown |-> enhanced.adjustments,
                    sigma_game |-> game.sigma_game,
                    sigma_components |-> game.components,
                    win_prob_enhanced |->
                        normal_cdf(Quot(enhanced.margin_enhanced, 3 * game.sigma_game)),
                    prediction_version |-> "1.0"],
          mf |-> mf,
          cache |-> c]

\* predict_game, lines 723-739, on the features mf and the four Series items
PredictFrom(mf, h_em, a_em, a_sigma, h_sigma, coefficients, c) ==
    IF ItemsRaise({h_em, a_em}) # "" THEN Raise(ItemsRaise({h_em, a_em}), c)
    ELSE IF ItemsRaise({a_sigma, h_sigma}) # "" THEN Raise(ItemsRaise({a_sigma, h_sigma}), c)
    ELSE MakePrediction(calculate_margin_baseline(h_em.v, a_em.v, mf.home_court_factor),
                        calculate_sigma_baseline(a_sigma.v, h_sigma.v),
                        calculate_margin_enhanced(h_em.v, a_em.v, mf, coefficients),
                        calculate_sigma_game(a_sigma.v, h_sigma.v, mf),
                        mf, c)

\* predict_game, lines 717-721 and on: computed is the result of the feature step
PredictWith(computed, away, home, coefficients) ==
    IF computed.raised # "" THEN Raise(computed.raised, computed.cache)
    ELSE PredictFrom(computed.mf, SeriesItem(home, "adj_em"), SeriesItem(away, "adj_em"),
                     SeriesItem(away, "sigma"), SeriesItem(home, "sigma"),
                     coefficients, computed.cache)

\* predict_game(away, home, matchup_features, coefficients). given: whether
\* matchup_features was passed. raised, pred (the MarginPrediction), cache afterwards.
predict_game(away, home, given, matchup_features, coefficients, c, d) ==
    PredictWith(IF given THEN [raised |-> "", mf |-> matchup_features, cache |-> c]
                ELSE calculate_matchup_features(away, home, c, d),
                away, home, coefficients)

----------------------------------------------------------------------------
(* snapshot.py: sigma of an enriched row *)

\* _calculate_sigma without the clamp of line 99
_calculate_sigma_unclamped(off_fg3, def_fg3, tempo) ==
    (11 * (1400 + off_fg3 + def_fg3) * sqrt((tempo * 25000) \div 17)) \div 2000

\* _calculate_sigma(off_fg3, def_fg3, tempo), arguments in tenths, result in thousandths.
\* tempo_factor = (tempo / 68.0) ** 0.5 in thousandths; three_pt_adjustment =
\* 1 + (avg_3pt_rate - 30) / 100 = (1400 + off_fg3 + def_fg3) / 2000.
_calculate_sigma(off_fg3, def_fg3, tempo) ==
    LET tempo_factor == sqrt((tempo * 25000) \div 17)
        sigma == (11 * (1400 + off_fg3 + def_fg3) * tempo_factor) \div 2000
    IN Max2(9500, Min2(13000, sigma))

\* dict.get on the lookup built from point_dist_data (lines 153-155, 174): the last
\* entry whose normalized TeamName equals norm_name, 0 when there is none
RECURSIVE PdLookup(_, _, _)
PdLookup(point_dist_data, norm_name, i) ==
    IF i = 0 THEN 0
    ELSE IF lower(point_dist_data[i].TeamName) = norm_name THEN i
    ELSE PdLookup(point_dist_data, norm_name, i - 1)

\* _merge_enrichment_data over TeamSnapshot rows: the sigma-related part of each
\* EnrichedTeamSnapshot (team, off_fg3, def_fg3, sigma); sigma in thousandths.
_merge_enrichment_data(base_rows, point_dist_data, include_sigma) ==
    [n \in 1..Len(base_rows) |->
        LET base == base_rows[n]
            pd == PdLookup(point_dist_data, lower(base.team), Len(point_dist_data))
        IN [team |-> base.team,
            off_fg3 |-> IF pd # 0 THEN Num(point_dist_data[pd].OffFg3) ELSE None,
            def_fg3 |-> IF pd # 0 THEN Num(point_dist_data[pd].DefFg3) ELSE None,
            sigma |-> IF include_sigma /\ pd # 0
                      THEN Num(_calculate_sigma(point_dist_data[pd].OffFg3,
                                                point_dist_data[pd].DefFg3, base.tempo))
                      ELSE None]]

----------------------------------------------------------------------------
(* Inputs: rating records (pandas Series), precomputed features, mappings *)

Str(name) == [k |-> "str", v |-> name]
NoneName == [k |-> "none", v |-> <<>>]
AbsentName == [k |-> "absent", v |-> <<>>]

Team(team, adj_em, adj_oe, adj_de, adj_tempo, efg_pct, defg_pct, to_pct, dto_pct, or_pct, dor_pct, off_fg3, sigma) ==
    [key \in Fields |->
        CASE key = "team" -> team
          [] key = "adj_em" -> adj_em
          [] key = "adj_oe" -> adj_oe
          [] key = "adj_de" -> adj_de
          [] key = "adj_tempo" -> adj_tempo
          [] key = "efg_pct" -> efg_pct
          [] key = "defg_pct" -> defg_pct
          [] key = "to_pct" -> to_pct
          [] key = "dto_pct" -> dto_pct
          [] key = "or_pct" -> or_pct
          [] key = "dor_pct" -> dor_pct
          [] key = "off_fg3" -> off_fg3
          [] key = "sigma" -> sigma]

\* The records of the tests (Oregon at Gonzaga), a fast and a slow extreme team, and
\* records with fields missing: absent keys, None and NaN values
Oregon == Team(Str(<<"U">>), Num(123), Num(1145), Num(1022), Num(675), Num(525), Num(498),
               Num(175), Absent, Num(320), Absent, Num(350), Num(105))
Gonzaga == Team(Str(<<"k">>), Num(220), Num(1208), Num(988), Num(692), Num(552), Num(475),
                Num(158), Num(210), Num(285), Num(270), Num(330), Num(112))
Fast == Team(Str(<<"K", "S", "U">>), Num(50), Num(1100), Num(1050), Num(800), Num(600),
             Num(400), Num(100), Num(600), Num(450), Num(150), Num(450), Num(130))
Slow == Team(NoneName, Num(0 - 30), None, NaN, Num(600), NaN, None, Num(300), Absent,
             Absent, None, Num(200), Num(95))
Bare == Team(AbsentName, Num(200), Absent, Absent, Absent, Absent, Absent, Absent, Absent,
             Absent, Absent, Absent, Num(110))
NoSigma == Team(Str(<<"U">>), Num(150), Num(1100), Num(950), Num(680), Absent, Absent,
                Absent, Absent, Absent, Absent, Absent, Absent)
NullEm == Team(Str(<<"K">>), None, None, None, None, None, None, None, None, None, None,
               None, Num(100))
NoEm == Team(Str(<<>>), Absent, Num(1100), Num(950), Num(680), Absent, Absent,
             Absent, Absent, Absent, Absent, Absent, None)
ZeroSigma == Team(Str(<<"S">>), Num(100), Num(1100), Num(1000), Num(680), Num(500), Num(500),
                  Num(200), Num(200), Num(300), Num(300), Num(300), Num(0))
NegSigma == Team(Str(<<"K", "U">>), Num(80), Num(1080), Num(1000), Num(740), Num(500),
                 Num(500), Num(200), Num(200), Num(300), Num(300), Num(300), Num(0 - 50))

Teams == {Oregon, Gonzaga, Fast, Slow, Bare, NoSigma, NullEm, NoEm, ZeroSigma, NegSigma}

Features(delta_tempo, shooting_advantage, shooting_defense_advantage, turnover_advantage, rebounding_advantage, pace_control, style_clash, home_court_factor) ==
    [delta_adj_em |-> 0, delta_adj_oe |-> 0, delta_adj_de |-> 0, delta_tempo |-> delta_tempo,
     shooting_advantage |-> shooting_advantage,
     shooting_defense_advantage |-> shooting_defense_advantage,
     turnover_advantage |-> turnover_advantage,
     rebounding_advantage |-> rebounding_advantage,
     tempo_mismatch |-> Abs(delta_tempo), pace_control |-> pace_control,
     home_3pt_reliance |-> 300, away_3pt_reliance |-> 300, style_clash |-> style_clash,
     home_court_factor |-> home_court_factor,
     rest_advantage |-> None, travel_distance |-> None, feature_version |-> "1.0"]

\* Precomputed MatchupFeatures a caller passes: the tests' extreme and neutral ones,
\* and features whose summed adjustment exceeds the default cap in either direction
GivenFeatures ==
    { Features(0 - 100, 100, 100, 100, 100, "home_controls", "similar", 35),
      Features(0, 0, 0, 0, 0, "neutral", "similar", 35),
      Features(100, 0, 0, 0, 0, "away_controls", "3pt_vs_interior", 25),
      Features(0 - 150, 0, 200, 500, 0 - 300, "home_controls", "3pt_vs_interior", 45),
      Features(150, 300, 0 - 100, 0 - 450, 200, "away_controls", "similar", 35) }

\* Injected coefficient mappings: None (EmptyMapping), the tests' custom mapping, a
\* tight cap, a zero cap, no cap key, a mapping that also carries variance
\* coefficients, and a mapping that lacks the adjustment keys
CustomCoef == Mapping(Num(200), Num(120), Num(200), Num(66), Num(4000), Absent, Absent, Absent)
TightCap == Mapping(Num(100), Num(60), Num(100), Num(33), Num(500), Absent, Absent, Absent)
ZeroCap == Mapping(Num(100), Num(60), Num(100), Num(33), Num(0), Absent, Absent, Absent)
NoCapKey == Mapping(Num(300), Num(60), Num(300), Num(33), Absent, Absent, Absent, Absent)
WithVariance == Mapping(Num(100), Num(60), Num(100), Num(33), Num(2000),
                        Num(30), Num(1500), Num(1200))
CapOnly == Mapping(Absent, Absent, Absent, Absent, Num(1000), Absent, Absent, Absent)

Coefficients == {EmptyMapping, CustomCoef, TightCap, ZeroCap, NoCapKey, WithVariance, CapOnly}

\* TeamSnapshot rows and point-distribution data for the enrichment
BaseRows == << [team |-> <<"K">>, tempo |-> 675], [team |-> <<"U">>, tempo |-> 800],
               [team |-> <<"S">>, tempo |-> 580] >>
PointDist == << [TeamName |-> <<"k">>, OffFg3 |-> 350, DefFg3 |-> 310],
                [TeamName |-> <<"U">>, OffFg3 |-> 480, DefFg3 |-> 420],
                [TeamName |-> <<"S">>, OffFg3 |-> 180, DefFg3 |-> 220] >>

\* The subsequence of seq at the indices in keep, in order
RECURSIVE Pick(_, _, _)
Pick(seq, keep, i) ==
    IF i > Len(seq) THEN << >>
    ELSE IF i \in keep THEN <<seq[i]>> \o Pick(seq, keep, i + 1)
    ELSE Pick(seq, keep, i + 1)

----------------------------------------------------------------------------
(* The state machine: calls of the public functions in one process *)

NoCall ==
    [op |-> "", away |-> Bare, home |-> Bare, given |-> FALSE,
     features |-> NoFeatures, coefficients |-> EmptyMapping, snapshot |-> 0,
     pre_cache |-> 0, pre_disk |-> 0, raised |-> "", pred |-> NoPrediction,
     mf |-> NoFeatures, val |-> 0, include_sigma |-> FALSE, rows |-> << >>,
     include_four_factors |-> FALSE, include_point_dist |-> FALSE, date_ok |-> TRUE,
     requests |-> << >>, away_team |-> << >>, home_team |-> << >>, error |-> << >>,
     margin |-> 0, sigma |-> 0, other |-> NoPrediction, proj |-> NoPrediction,
     args |-> << >>, warnings |-> << >>, attempt |-> 0, log |-> << >>]

Init ==
    /\ disk \in DiskStates
    /\ cache = 0
    /\ ret = NoCall
    /\ seen = NoCall
    /\ tpc = << >>
    /\ tret = << >>
    /\ tcache = 0
    /\ nparsed = 0
    /\ client = 0

\* A call is made when the caller has consumed the previous call's return value
Idle == ret.op = ""

Called(op) == [NoCall EXCEPT !.op = op, !.pre_cache = cache, !.pre_disk = disk]

\* The caller drops the return value of the last call
Discard ==
    /\ ~Idle
    /\ ret' = NoCall
    /\ UNCHANGED <<disk, cache, seen, threadVars, client>>

PredictGame(away, home, given, features, coefficients) ==
    Idle /\ \E r \in {predict_game(away, home, given, features, coefficients, cache, disk)} :
       /\ cache' = r.cache
       /\ ret' = [Called("predict_game") EXCEPT
                    !.away = away, !.home = home, !.given = given,
                    !.features = IF given THEN features ELSE NoFeatures,
                    !.coefficients = coefficients, !.raised = r.raised, !.pred = r.pred,
                    !.mf = r.mf]
       /\ UNCHANGED <<disk, seen, threadVars, client>>

CalculateMatchupFeatures(away, home) ==
    Idle /\ \E r \in {calculate_matchup_features(away, home, cache, disk)} :
       /\ cache' = r.cache
       /\ ret' = [Called("calculate_matchup_features") EXCEPT
                    !.away = away, !.home = home, !.raised = r.raised, !.mf = r.mf]
       /\ UNCHANGED <<disk, seen, threadVars, client>>

CalculateHomeCourtFactor(home, hca_snapshot) ==
    Idle /\ \E r \in {calculate_home_court_factor(home, hca_snapshot, cache, disk)} :
       /\ cache' = r.cache
       /\ ret' = [Called("calculate_home_court_factor") EXCEPT
                    !.home = home, !.snapshot = hca_snapshot, !.val = r.val]
       /\ UNCHANGED <<disk, seen, threadVars, client>>

CalculateMarginEnhanced(away, home, features, coefficients) ==
    /\ Idle
    /\ away["adj_em"].k = "num" /\ home["adj_em"].k = "num"
    /\ \E r \in {calculate_margin_enhanced(home["adj_em"].v, away["adj_em"].v, features,
                                           coefficients)} :
       /\ ret' = [Called("calculate_margin_enhanced") EXCEPT
                    !.away = away, !.home = home, !.given = TRUE, !.features = features,
                    !.coefficients = coefficients, !.raised = r.raised,
                    !.pred = [NoPrediction EXCEPT
                                !.margin_baseline =
                                    calculate_margin_baseline(home["adj_em"].v,
                                        away["adj_em"].v, features.home_court_factor),
                                !.margin_enhanced = r.margin_enhanced,
                                !.adjustment_breakdown = r.adjustments]]
       /\ UNCHANGED <<disk, cache, seen, threadVars, client>>

CalculateSigmaGame(away, home, features) ==
    /\ Idle
    /\ away["sigma"].k = "num" /\ home["sigma"].k = "num"
    /\ \E r \in {calculate_sigma_game(away["sigma"].v, home["sigma"].v, features)} :
       /\ ret' = [Called("calculate_sigma_game") EXCEPT
                    !.away = away, !.home = home, !.given = TRUE, !.features = features,
                    !.pred = [NoPrediction EXCEPT !.sigma_game = r.sigma_game,
                                                  !.sigma_components = r.components]]
       /\ UNCHANGED <<disk, cache, seen, threadVars, client>>

LoadHcaSnapshot ==
    Idle /\ \E r \in {load_hca_snapshot(cache, disk)} :
       /\ cache' = r.cache
       /\ ret' = [Called("load_hca_snapshot") EXCEPT !.snapshot = r.ret]
       /\ UNCHANGED <<disk, seen, threadVars, client>>

\* clear_hca_cache()
ClearHcaCache ==
    /\ Idle
    /\ cache' = 0
    /\ ret' = Called("clear_hca_cache")
    /\ UNCHANGED <<disk, seen, threadVars, client>>

\* hca_scraper.main / the CLI's hca command write data/kenpom_hca_<today>.json;
\* any other writer of data/ may leave a file that does not parse
WriteHcaFile(i) ==
    /\ Idle
    /\ disk # i
    /\ disk' = i
    /\ ret' = Called("write_hca_file")
    /\ UNCHANGED <<cache, seen, threadVars, client>>

MergeEnrichment(base_keep, pd_keep, include_sigma) ==
    /\ Idle
    /\ ret' = [Called("_merge_enrichment_data") EXCEPT
                 !.include_sigma = include_sigma,
                 !.rows = _merge_enrichment_data(Pick(BaseRows, base_keep, 1),
                                                 Pick(PointDist, pd_keep, 1), include_sigma)]
    /\ UNCHANGED <<disk, cache, seen, threadVars, client>>

Next ==
    \/ \E away \in Teams, home \in Teams, coefficients \in Coefficients :
          PredictGame(away, home, FALSE, NoFeatures, coefficients)
    \/ \E away \in {Oregon, Fast, NoSigma, ZeroSigma}, home \in {Gonzaga, NegSigma, NoEm},
          features \in GivenFeatures, coefficients \in Coefficients :
          PredictGame(away, home, TRUE, features, coefficients)
    \/ \E away \in Teams, home \in Teams : CalculateMatchupFeatures(away, home)
    \/ \E home \in Teams, hca_snapshot \in 0..Len(HcaFiles) :
          /\ hca_snapshot # 0 => HcaFiles[hca_snapshot].json_ok
          /\ CalculateHomeCourtFactor(home, hca_snapshot)
    \/ \E away \in {Oregon, Fast}, home \in {Gonzaga, Slow},
          features \in GivenFeatures, coefficients \in Coefficients :
          CalculateMarginEnhanced(away, home, features, coefficients)
    \/ \E away \in Teams, home \in Teams, features \in GivenFeatures :
          CalculateSigmaGame(away, home, features)
    \/ LoadHcaSnapshot
    \/ ClearHcaCache
    \/ \E i \in 1..Len(HcaFiles) : WriteHcaFile(i)
    \/ \E base_keep \in SUBSET (1..Len(BaseRows)), pd_keep \in SUBSET (1..Len(PointDist)),
          include_sigma \in BOOLEAN :
          MergeEnrichment(base_keep, pd_keep, include_sigma)
    \/ Discard

Spec == Init /\ [][Next]_vars

----------------------------------------------------------------------------
(* Claims checked under Spec *)

IsPrediction == ret.op = "predict_game" /\ ret.raised = ""
IsEnhanced == ret.op = "calculate_margin_enhanced" /\ ret.raised = ""

\* The cap a mapping configures, in margin units: its max_total_adjustment, else 2.0
CapOf(coefficients) ==
    IF coefficients["max_total_adjustment"].k = "num"
    THEN coefficients["max_total_adjustment"].v * MilliToAdj
    ELSE 2 * AdjUnit

BreakdownSum(b) == b.pace_control + b.shooting_matchup + b.turnover_battle + b.rebounding_edge

C2_SigmaGameAtLeastTeamSigma ==
    ((ret.op = "calculate_sigma_game") \/ IsPrediction) =>
        /\ ret.pred.sigma_game >= ret.away["sigma"].v * 100
        /\ ret.pred.sigma_game >= ret.home["sigma"].v * 100

\* C2 witness: a game with a tempo mismatch and a style clash between teams of different sigma
C2_Witness ==
    /\ IsPrediction
    /\ ret.mf.tempo_mismatch > 0
    /\ ret.mf.style_clash = "3pt_vs_interior"
    /\ ret.away["sigma"].v # ret.home["sigma"].v
    /\ ret.pred.sigma_components.var_interaction > 0

\* C3 as stated: the four components of the breakdown sum to margin_adjustment.
C3_BreakdownSumsToAdjustment ==
    IsPrediction =>
        BreakdownSum(ret.pred.adjustment_breakdown) = ret.pred.margin_adjustment

\* C3 amended: the four components sum to margin_adjustment unless their sum exceeds
\* the cap in magnitude; then margin_adjustment is the cap with the sign of the sum.
C3_BreakdownSumsUnlessClamped ==
    IsPrediction =>
        LET total == BreakdownSum(ret.pred.adjustment_breakdown)
            cap == CapOf(ret.coefficients)
        IN /\ ret.pred.margin_adjustment = ret.pred.margin_enhanced - ret.pred.margin_baseline
           /\ Abs(total) <= cap => ret.pred.margin_adjustment = total
           /\ total > cap => ret.pred.margin_adjustment = cap
           /\ total < 0 - cap => ret.pred.margin_adjustment = 0 - cap

\* C3 witness: an unclamped prediction with a nonzero adjustment
C3_Witness ==
    /\ IsPrediction
    /\ BreakdownSum(ret.pred.adjustment_breakdown) # 0
    /\ Abs(BreakdownSum(ret.pred.adjustment_breakdown)) < CapOf(ret.coefficients)
    /\ ret.pred.margin_adjustment = BreakdownSum(ret.pred.adjustment_breakdown)

\* A record with a rating field absent or null
HasMissingField(row) == \E key \in Fields : row[key].k \in {"absent", "none"}

\* A mapping that sets the four adjustment coefficients
HasAdjustmentCoefs(coefficients) ==
    \/ coefficients = EmptyMapping
    \/ \A key \in {"pace_control_per_5_tempo", "shooting_matchup_per_5_efg",
                   "turnover_battle_per_2_to", "rebounding_edge_per_3_or"} :
          coefficients[key].k = "num"

\* C4 as stated: predict_game raises no error over a missing field when a rating
\* field, adj_em and sigma included, is absent or null in either record.
C4_PredictGameNeverRaisesOnMissing ==
    (/\ ret.op = "predict_game"
     /\ HasMissingField(ret.away) \/ HasMissingField(ret.home)
     /\ HasAdjustmentCoefs(ret.coefficients))
        => ret.raised \notin {"KeyError", "TypeError"}

\* The table calculate_home_court_factor consults in the recorded call: the snapshot
\* passed, else the cached one, else the dated file when it parses and is dated validly
TableConsulted ==
    IF ret.snapshot # 0 THEN ret.snapshot
    ELSE IF ret.pre_cache # 0 THEN ret.pre_cache
    ELSE IF ret.pre_disk > 0 /\ HcaFiles[ret.pre_disk].json_ok /\ HcaFiles[ret.pre_disk].date_ok
         THEN ret.pre_disk
    ELSE 0

ExactEntries(teams, name) == {i \in 1..Len(teams) : lower(teams[i].team) = lower(name)}

SubstringEntries(teams, name) ==
    {i \in 1..Len(teams) : \/ IsSubstring(lower(name), lower(teams[i].team))
                           \/ IsSubstring(lower(teams[i].team), lower(name))}

C9_EverySigmaPositive ==
    /\ (ret.op = "_merge_enrichment_data" /\ ret.include_sigma) =>
          \A n \in 1..Len(ret.rows) : ret.rows[n].sigma.k = "num" /\ ret.rows[n].sigma.v > 0
    /\ IsPrediction => ret.pred.sigma_baseline > 0 /\ ret.pred.sigma_game > 0

\* C9 amended: an enriched row built with calculate_sigma has sigma None when the team
\* has no point-distribution entry and a sigma within [9.5, 13.0] otherwise; sigma_baseline
\* and sigma_game of a prediction are strictly positive when both input sigmas are.
C9_SigmaPositiveWhenPresent ==
    /\ (ret.op = "_merge_enrichment_data" /\ ret.include_sigma) =>
          \A n \in 1..Len(ret.rows) :
             LET row == ret.rows[n]
             IN IF row.off_fg3.k = "none" THEN row.sigma.k = "none"
                ELSE row.sigma.k = "num" /\ row.sigma.v >= 9500 /\ row.sigma.v <= 13000
    /\ (IsPrediction /\ ret.away["sigma"].v > 0 /\ ret.home["sigma"].v > 0) =>
          ret.pred.sigma_baseline > 0 /\ ret.pred.sigma_game > 0

\* C9 witness: an enrichment with a row of clamped sigma beside a row without one
C9_Witness ==
    /\ ret.op = "_merge_enrichment_data" /\ ret.include_sigma
    /\ \E n \in 1..Len(ret.rows) : ret.rows[n].sigma.k = "none"
    /\ \E n \in 1..Len(ret.rows) : ret.rows[n].sigma.k = "num" /\ ret.rows[n].sigma.v = 13000
    /\ \E n \in 1..Len(ret.rows) : ret.rows[n].sigma.k = "num" /\ ret.rows[n].sigma.v = 9500

\* The value the injected mapping gives a coefficient, the built-in one where it is silent
Injected(coefficients, key) ==
    IF coefficients[key].k = "num" THEN coefficients[key].v
    ELSE IF HEURISTIC_COEFFICIENTS[key].k = "num" THEN HEURISTIC_COEFFICIENTS[key].v
    ELSE VARIANCE_COEFFICIENTS[key].v

\* C10 as stated: every coefficient takes the injected mapping's value: the four
\* adjustment coefficients, the cap, the tempo-mismatch factor and the style multipliers.
C10_EveryCoefficientInjected ==
    (IsPrediction /\ ret.coefficients # EmptyMapping) =>
        LET coef == ret.coefficients
            b == ret.pred.adjustment_breakdown
            multiplier == IF ret.mf.style_clash = "3pt_vs_interior"
                          THEN Injected(coef, "style_clash_3pt_vs_interior_boost")
                          ELSE Injected(coef, "style_clash_similar_boost")
        IN /\ b.shooting_matchup =
                 (ret.mf.shooting_defense_advantage - ret.mf.shooting_advantage)
                 * Injected(coef, "shooting_matchup_per_5_efg") * 6
           /\ b.turnover_battle =
                 ret.mf.turnover_advantage * Injected(coef, "turnover_battle_per_2_to") * 15
           /\ b.rebounding_edge =
                 0 - ret.mf.rebounding_advantage * Injected(coef, "rebounding_edge_per_3_or") * 10
           /\ Abs(b.pace_control) \in
                 {0, Abs(ret.mf.delta_tempo) * Injected(coef, "pace_control_per_5_tempo") * 6}
           /\ Abs(ret.pred.margin_adjustment) <= CapOf(coef)
           /\ ret.pred.sigma_components.var_interaction =
                 (Injected(coef, "tempo_mismatch_factor") * ret.mf.tempo_mismatch
                  * ret.mf.tempo_mismatch * multiplier) \div 100

----------------------------------------------------------------------------
(* calculate_matchup_features on records with any subset of fields missing *)

MatchupFields == Fields \ {"sigma"}

\* row with the fields in missing taken away: the key dropped ("absent"), the value
\* None ("none") or the value NaN ("nan")
Masked(row, missing, kind) ==
    [key \in Fields |->
        IF key \notin missing THEN row[key]
        ELSE IF key = "team" THEN (IF kind = "absent" THEN AbsentName ELSE NoneName)
        ELSE [k |-> kind, v |-> 0]]

InitMissing == Init /\ disk \in {0, 1}

\* calculate_matchup_features(away, home) with the fields in missing taken from the
\* away record, the home record or both
CalculateOnMissing ==
    /\ Idle
    /\ \E missing \in SUBSET MatchupFields, kind \in {"absent", "none", "nan"},
          side \in {"away", "home", "both"} :
          CalculateMatchupFeatures(
              IF side = "home" THEN Fast ELSE Masked(Fast, missing, kind),
              IF side = "away" THEN Gonzaga ELSE Masked(Gonzaga, missing, kind))

NextMissing == CalculateOnMissing \/ Discard

SpecMissing == InitMissing /\ [][NextMissing]_vars

\* The value of a field, the documented default where it is absent, None or NaN
OrDefault(row, key, default) == IF row[key].k = "num" THEN row[key].v ELSE default

\* C5: calculate_matchup_features raises no error whichever fields are missing from
\* either record, and computes with the defaults: eFG% 50.0, TO% 20.0, OR%/DOR% 30.0,
\* 3PT share 30.0, tempo 68.0.
C5_FeaturesDefaultMissing ==
    ret.op = "calculate_matchup_features" =>
        LET away == ret.away
            home == ret.home
        IN /\ ret.raised = ""
           /\ ret.mf.shooting_advantage =
                 OrDefault(away, "efg_pct", 500) - OrDefault(home, "defg_pct", 500)
           /\ ret.mf.shooting_defense_advantage =
                 OrDefault(home, "efg_pct", 500) - OrDefault(away, "defg_pct", 500)
           /\ ret.mf.turnover_advantage =
                 OrDefault(home, "dto_pct", 200) - OrDefault(away, "to_pct", 200)
           /\ ret.mf.rebounding_advantage =
                 OrDefault(away, "or_pct", 300) - OrDefault(home, "dor_pct", 300)
           /\ ret.mf.home_3pt_reliance = OrDefault(home, "off_fg3", 300)
           /\ ret.mf.away_3pt_reliance = OrDefault(away, "off_fg3", 300)
           /\ ret.mf.delta_tempo =
                 OrDefault(away, "adj_tempo", 680) - OrDefault(home, "adj_tempo", 680)
           /\ ret.mf.tempo_mismatch = Abs(ret.mf.delta_tempo)

\* C5 witness: features computed from two records with every field None
C5_Witness ==
    /\ ret.op = "calculate_matchup_features" /\ ret.raised = ""
    /\ \A key \in MatchupFields : ret.away[key].k = "none" /\ ret.home[key].k = "none"
    /\ ret.mf.shooting_advantage = 0 /\ ret.mf.home_3pt_reliance = 300
    /\ ret.mf.home_court_factor = DEFAULT_HCA

----------------------------------------------------------------------------
(* predict_game called twice, other calls in between *)

\* The caller keeps the result of a predict_game call to compare with a later one
Remember ==
    /\ ret.op = "predict_game"
    /\ seen' = ret
    /\ ret' = NoCall
    /\ UNCHANGED <<disk, cache, threadVars, client>>

NextIdem ==
    \/ \E home \in {Gonzaga, Bare}, coefficients \in {EmptyMapping, CustomCoef} :
          PredictGame(Oregon, home, FALSE, NoFeatures, coefficients)
    \/ \E features \in GivenFeatures : PredictGame(Oregon, Gonzaga, TRUE, features, EmptyMapping)
    \/ Remember
    \/ LoadHcaSnapshot
    \/ ClearHcaCache
    \/ \E i \in 1..Len(HcaFiles) : WriteHcaFile(i)
    \/ Discard

SpecIdem == Init /\ [][NextIdem]_vars

\* C8 as stated: two predict_game calls with the same arguments return equal
\* predictions whatever was called before or between them, and predict_game changes
\* no observable state.
C8_PredictGameIdempotent ==
    /\ (/\ ret.op = "predict_game" /\ seen.op = "predict_game"
        /\ ret.away = seen.away /\ ret.home = seen.home /\ ret.given = seen.given
        /\ ret.features = seen.features /\ ret.coefficients = seen.coefficients)
          => ret.raised = seen.raised /\ ret.pred = seen.pred
    /\ ret.op = "predict_game" => cache = ret.pre_cache

----------------------------------------------------------------------------
(* load_hca_snapshot called from several threads *)

NumThreads == 3

Threads == 1..NumThreads

InitThreads ==
    /\ disk \in DiskStates
    /\ cache = 0
    /\ ret = NoCall
    /\ seen = NoCall
    /\ tpc = [t \in Threads |-> "idle"]
    /\ tret = [t \in Threads |-> 0]
    /\ tcache = 0
    /\ nparsed = 0
    /\ client = 0

\* A thread calls load_hca_snapshot()
TCall(t) ==
    /\ tpc[t] = "idle"
    /\ tpc' = [tpc EXCEPT ![t] = "check"]
    /\ UNCHANGED <<client, disk, cache, ret, seen, tret, tcache, nparsed>>

\* lines 241-242: the cached object is returned when there is one
TCheck(t) ==
    /\ tpc[t] = "check"
    /\ IF tcache # 0
       THEN tpc' = [tpc EXCEPT ![t] = "done"] /\ tret' = [tret EXCEPT ![t] = tcache]
       ELSE tpc' = [tpc EXCEPT ![t] = "glob"] /\ UNCHANGED tret
    /\ UNCHANGED <<client, disk, cache, ret, seen, tcache, nparsed>>

\* lines 248-256: None without a data directory or a snapshot file
TGlob(t) ==
    /\ tpc[t] = "glob"
    /\ tpc' = [tpc EXCEPT ![t] = IF disk = NoDataDir \/ disk = 0 THEN "done" ELSE "read"]
    /\ UNCHANGED <<client, disk, cache, ret, seen, tret, tcache, nparsed>>

\* lines 259-260: the file is read and parsed into a new HCASnapshot, which is assigned
\* to the cache; a file that does not parse raises, and the handler returns None
TRead(t) ==
    /\ tpc[t] = "read"
    /\ nparsed' = nparsed + 1
    /\ IF HcaFiles[disk].json_ok
       THEN /\ tcache' = nparsed + 1
            /\ cache' = disk
            /\ tpc' = [tpc EXCEPT ![t] = "fresh"]
       ELSE /\ tpc' = [tpc EXCEPT ![t] = "done"]
            /\ UNCHANGED <<tcache, cache>>
    /\ UNCHANGED <<client, disk, ret, seen, tret>>

\* lines 263-276: the freshness check, whose strptime raises on an invalid date (None
\* is returned); then the value of the global is returned
TFresh(t) ==
    /\ tpc[t] = "fresh"
    /\ tpc' = [tpc EXCEPT ![t] = "done"]
    /\ tret' = [tret EXCEPT ![t] = IF HcaFiles[disk].date_ok THEN tcache ELSE 0]
    /\ UNCHANGED <<client, disk, cache, ret, seen, tcache, nparsed>>

NextThreads ==
    \E t \in Threads : TCall(t) \/ TCheck(t) \/ TGlob(t) \/ TRead(t) \/ TFresh(t)

SpecThreads == InitThreads /\ [][NextThreads]_vars

\* C7 as stated: with concurrent callers of load_hca_snapshot the snapshot file is read
\* and parsed at most once and every caller receives the same snapshot object.
C7_SnapshotLoadedOnce ==
    /\ nparsed <= 1
    /\ \A t \in DOMAIN tpc, u \in DOMAIN tpc :
          (tpc[t] = "done" /\ tpc[u] = "done") => tret[t] = tret[u]

----------------------------------------------------------------------------
(* snapshot.py: build_snapshot_from_ratings and build_snapshot_from_archive *)

\* A row of a snapshot built without enrichment: no point-distribution and no sigma column
BaseOnly(base_rows) ==
    [n \in 1..Len(base_rows) |->
        [team |-> base_rows[n].team, off_fg3 |-> Absent, def_fg3 |-> Absent, sigma |-> Absent]]

\* The enrichment requests of lines 316-323 and 393-400, in order
EnrichmentRequests(include_four_factors, include_point_dist) ==
    (IF include_four_factors THEN <<"four-factors">> ELSE << >>)
    \o (IF include_point_dist THEN <<"pointdist">> ELSE << >>)

\* build_snapshot_from_ratings with the parameters validated after the base data is fetched
build_snapshot_from_ratings_late(ratings, point_dist, include_four_factors, include_point_dist, calculate_sigma) ==
    IF calculate_sigma /\ ~include_point_dist
    THEN [raised |-> "ValueError", requests |-> <<"teams", "ratings">>, rows |-> << >>]
    ELSE IF ~(include_four_factors \/ include_point_dist)
    THEN [raised |-> "", requests |-> <<"teams", "ratings">>, rows |-> BaseOnly(ratings)]
    ELSE [raised |-> "",
          requests |-> <<"teams", "ratings">>
                       \o EnrichmentRequests(include_four_factors, include_point_dist),
          rows |-> _merge_enrichment_data(
                       ratings, IF include_point_dist THEN point_dist ELSE << >>,
                       calculate_sigma)]

\* build_snapshot_from_ratings. ratings and point_dist are what the client's ratings and
\* point_distribution requests answer. raised; requests: the client requests issued, in
\* order; rows: the rows of the DataFrame returned.
build_snapshot_from_ratings(ratings, point_dist, include_four_factors, include_point_dist, calculate_sigma) ==
    IF calculate_sigma /\ ~include_point_dist
    THEN [raised |-> "ValueError", requests |-> << >>, rows |-> << >>]
    ELSE IF ~(include_four_factors \/ include_point_dist)
    THEN [raised |-> "", requests |-> <<"teams", "ratings">>, rows |-> BaseOnly(ratings)]
    ELSE [raised |-> "",
          requests |-> <<"teams", "ratings">>
                       \o EnrichmentRequests(include_four_factors, include_point_dist),
          rows |-> _merge_enrichment_data(
                       ratings, IF include_point_dist THEN point_dist ELSE << >>,
                       calculate_sigma)]

\* build_snapshot_from_archive. archived is what the client's archive request answers
\* (its adj_tempo serves as tempo, line 163); date_ok: whether date is a valid
\* YYYY-MM-DD, which _extract_season_from_archive_date needs (strptime, line 120).
build_snapshot_from_archive(archived, point_dist, date_ok, include_four_factors, include_point_dist, calculate_sigma) ==
    IF calculate_sigma /\ ~include_point_dist
    THEN [raised |-> "ValueError", requests |-> << >>, rows |-> << >>]
    ELSE IF ~(include_four_factors \/ include_point_dist)
    THEN [raised |-> "", requests |-> <<"archive">>, rows |-> BaseOnly(archived)]
    ELSE IF ~date_ok
    THEN [raised |-> "ValueError", requests |-> <<"archive">>, rows |-> << >>]
    ELSE [raised |-> "",
          requests |-> <<"archive">>
                       \o EnrichmentRequests(include_four_factors, include_point_dist),
          rows |-> _merge_enrichment_data(
                       archived, IF include_point_dist THEN point_dist ELSE << >>,
                       calculate_sigma)]

BuildSnapshotFromRatings(base_keep, pd_keep, include_four_factors, include_point_dist, calculate_sigma) ==
    Idle /\ \E r \in {build_snapshot_from_ratings(Pick(BaseRows, base_keep, 1),
                                                  Pick(PointDist, pd_keep, 1),
                                                  include_four_factors, include_point_dist,
                                                  calculate_sigma)} :
       /\ ret' = [Called("build_snapshot_from_ratings") EXCEPT
                    !.include_four_factors = include_four_factors,
                    !.include_point_dist = include_point_dist,
                    !.include_sigma = calculate_sigma,
                    !.raised = r.raised, !.requests = r.requests, !.rows = r.rows]
       /\ UNCHANGED <<disk, cache, seen, threadVars, client>>

BuildSnapshotFromArchive(base_keep, pd_keep, date_ok, include_four_factors, include_point_dist, calculate_sigma) ==
    Idle /\ \E r \in {build_snapshot_from_archive(Pick(BaseRows, base_keep, 1),
                                                  Pick(PointDist, pd_keep, 1), date_ok,
                                                  include_four_factors, include_point_dist,
                                                  calculate_sigma)} :
       /\ ret' = [Called("build_snapshot_from_archive") EXCEPT
                    !.include_four_factors = include_four_factors,
                    !.include_point_dist = include_point_dist,
                    !.include_sigma = calculate_sigma, !.date_ok = date_ok,
                    !.raised = r.raised, !.requests = r.requests, !.rows = r.rows]
       /\ UNCHANGED <<disk, cache, seen, threadVars, client>>

InitSnapshot == Init /\ disk = 0

NextSnapshot ==
    \/ \E base_keep \in SUBSET (1..Len(BaseRows)), pd_keep \in SUBSET (1..Len(PointDist)),
          include_four_factors \in BOOLEAN, include_point_dist \in BOOLEAN,
          calculate_sigma \in BOOLEAN :
          BuildSnapshotFromRatings(base_keep, pd_keep, include_four_factors,
                                   include_point_dist, calculate_sigma)
    \/ \E base_keep \in SUBSET (1..Len(BaseRows)), pd_keep \in SUBSET (1..Len(PointDist)),
          date_ok \in BOOLEAN, include_four_factors \in BOOLEAN,
          include_point_dist \in BOOLEAN, calculate_sigma \in BOOLEAN :
          BuildSnapshotFromArchive(base_keep, pd_keep, date_ok, include_four_factors,
                                   include_point_dist, calculate_sigma)
    \/ Discard

SpecSnapshot == InitSnapshot /\ [][NextSnapshot]_vars

IsBuild == ret.op \in {"build_snapshot_from_ratings", "build_snapshot_from_archive"}

\* C11: build_snapshot_from_ratings and build_snapshot_from_archive called with
\* calculate_sigma and without include_point_dist raise ValueError before any client
\* request is issued and before any row is computed.
C11_SigmaWithoutPointDistRejectedFirst ==
    (IsBuild /\ ret.include_sigma /\ ~ret.include_point_dist) =>
        ret.raised = "ValueError" /\ ret.requests = << >> /\ ret.rows = << >>

\* C11 witness: the archive builder rejects the flags although the client has rows to
\* give, four factors were asked for and the date is malformed
C11_Witness ==
    /\ ret.op = "build_snapshot_from_archive"
    /\ ret.include_sigma /\ ~ret.include_point_dist /\ ret.include_four_factors
    /\ ~ret.date_ok
    /\ ret.raised = "ValueError" /\ ret.requests = << >>

----------------------------------------------------------------------------
(* analyze_todays_games.py: find_team and analyze_game *)

\* The rows of the snapshot DataFrame given to analyze_game
SnapshotRows == <<Oregon, Gonzaga, Fast>>

\* The identifiers analyze_game is called with: names of one word, none of them a key
\* of TEAM_ALIASES, so that normalize_team_name returns the identifier alone
TeamIdentifiers == {<<"U">>, <<"K">>, <<"K", "S">>, <<"S", "U", "K">>, <<"Z">>}

\* find_team: the index in df of the row found, 0 for None. First the rows whose team
\* equals the name ignoring case, then those whose team contains it ignoring case,
\* then those that contain every significant word (3 or more characters) of the name.
find_team(df, team_name) ==
    LET name == lower(team_name)
        exact == FirstIndex({i \in 1..Len(df) : lower(df[i]["team"].v) = name})
        partial == FirstIndex({i \in 1..Len(df) : IsSubstring(name, lower(df[i]["team"].v))})
        significant_words == IF Len(name) >= 3 THEN {name} ELSE {}
        by_words == FirstIndex({i \in 1..Len(df) :
                                  \A word \in significant_words :
                                     IsSubstring(word, lower(df[i]["team"].v))})
    IN IF exact # 0 THEN exact
       ELSE IF partial # 0 THEN partial
       ELSE IF significant_words # {} THEN by_words
       ELSE 0

\* The result of analyze_game when both teams were found: the prediction, or the
\* exception of predict_game or of the calculate_matchup_features call after it
AnalyzeFound(prediction, away, home, d) ==
    IF prediction.raised # ""
    THEN [raised |-> prediction.raised, error |-> << >>, pred |-> NoPrediction,
          cache |-> prediction.cache]
    ELSE [raised |-> calculate_matchup_features(away, home, prediction.cache, d).raised,
          error |-> << >>, pred |-> prediction.pred,
          cache |-> calculate_matchup_features(away, home, prediction.cache, d).cache]

\* analyze_game(df, away_team, home_team) without market odds or fanmatch data.
\* error: the words of the "error" entry of the dictionary returned (the f-string of
\* line 388), << >> when there is none.
analyze_game(df, away_team, home_team, c, d) ==
    LET away == find_team(df, away_team)
        home == find_team(df, home_team)
    IN IF away = 0 \/ home = 0
       THEN [raised |-> "",
             error |-> <<"Team", "not", "found:", IF away = 0 THEN away_team ELSE home_team>>,
             pred |-> NoPrediction, cache |-> c]
       ELSE AnalyzeFound(predict_game(df[away], df[home], FALSE, NoFeatures, EmptyMapping, c, d),
                         df[away], df[home], d)

AnalyzeGame(keep, away_team, home_team) ==
    Idle /\ \E r \in {analyze_game(Pick(SnapshotRows, keep, 1), away_team, home_team,
                                   cache, disk)} :
       /\ cache' = r.cache
       /\ ret' = [Called("analyze_game") EXCEPT
                    !.away_team = away_team, !.home_team = home_team,
                    !.rows = Pick(SnapshotRows, keep, 1),
                    !.raised = r.raised, !.error = r.error, !.pred = r.pred]
       /\ UNCHANGED <<disk, seen, threadVars, client>>

NextAnalyze ==
    \/ \E keep \in SUBSET (1..Len(SnapshotRows)), away_team \in TeamIdentifiers,
          home_team \in TeamIdentifiers :
          AnalyzeGame(keep, away_team, home_team)
    \/ Discard

SpecAnalyze == Init /\ [][NextAnalyze]_vars

\* No row of the snapshot matches the identifier in any of find_team's three passes
NotInSnapshot(df, team_name) ==
    \A i \in 1..Len(df) : ~IsSubstring(lower(team_name), lower(df[i]["team"].v))

\* The words of an error message name a side and its identifier
Names(error, side, team_name) ==
    /\ \E i \in 1..Len(error) : error[i] = side
    /\ \E i \in 1..Len(error) : error[i] = team_name

\* C12 as stated: when analyze_game cannot find a team, the error it returns states
\* each side that failed (home or away) with the identifier passed for that side.
C12_ErrorNamesSideAndIdentifier ==
    ret.op = "analyze_game" =>
        /\ NotInSnapshot(ret.rows, ret.away_team) => Names(ret.error, "away", ret.away_team)
        /\ NotInSnapshot(ret.rows, ret.home_team) => Names(ret.error, "home", ret.home_team)

----------------------------------------------------------------------------
(* calculate_matchup_features around the thresholds of pace_control and style_clash *)

\* Tempos and 3PT shares, in tenths, on both sides of the thresholds and on them
AwayTempos == {Absent, Num(629), Num(630), Num(631), Num(680), Num(729), Num(730), Num(731)}
HomeTempos == {Absent, None, Num(680)}
AwayShares == {Absent, NaN, Num(199), Num(200), Num(201), Num(300), Num(399), Num(400), Num(401)}
HomeShares == {Absent, Num(300)}

\* The record row with the value of one field replaced
WithField(row, field, value) == [row EXCEPT ![field] = value]

CalculateAtThreshold ==
    /\ Idle
    /\ \E a_tempo \in AwayTempos, h_tempo \in HomeTempos, a_share \in AwayShares,
          h_share \in HomeShares, swap \in BOOLEAN :
          LET away == WithField(WithField(Oregon, "adj_tempo", a_tempo), "off_fg3", a_share)
              home == WithField(WithField(Gonzaga, "adj_tempo", h_tempo), "off_fg3", h_share)
          IN IF swap THEN CalculateMatchupFeatures(home, away)
             ELSE CalculateMatchupFeatures(away, home)

NextThreshold == CalculateAtThreshold \/ LoadHcaSnapshot \/ ClearHcaCache \/ Discard

SpecThreshold == Init /\ [][NextThreshold]_vars

IsFeatures == ret.op = "calculate_matchup_features" /\ ret.raised = ""

\* C13: pace_control is determined by the call's delta_tempo (away tempo - home tempo)
\* alone: away_controls iff it exceeds 5.0, home_controls iff it is below -5.0, neutral
\* iff its magnitude is at most 5.0, whatever was called before.
C13_PaceControlByDeltaTempo ==
    IsFeatures =>
        LET delta_tempo == OrDefault(ret.away, "adj_tempo", 680)
                           - OrDefault(ret.home, "adj_tempo", 680)
        IN /\ ret.mf.delta_tempo = delta_tempo
           /\ ret.mf.pace_control = "away_controls" <=> delta_tempo > 50
           /\ ret.mf.pace_control = "home_controls" <=> delta_tempo < 0 - 50
           /\ ret.mf.pace_control = "neutral" <=> Abs(delta_tempo) <= 50

\* C13 witness: a gap of exactly 5.0 is neutral, with a snapshot cached by an earlier call
C13_Witness ==
    /\ IsFeatures
    /\ ret.mf.delta_tempo = 0 - 50
    /\ ret.mf.pace_control = "neutral"
    /\ ret.pre_cache # 0

\* C14: style_clash is 3pt_vs_interior iff the 3PT reliances of the two teams differ by
\* more than 10.0, and similar otherwise; a missing reliance counts as 30.0.
C14_StyleClashByRelianceGap ==
    IsFeatures =>
        LET gap == Abs(OrDefault(ret.home, "off_fg3", 300) - OrDefault(ret.away, "off_fg3", 300))
        IN /\ ret.mf.style_clash = "3pt_vs_interior" <=> gap > 100
           /\ ret.mf.style_clash = "similar" <=> gap <= 100

\* C14 witness: a gap of exactly 10.0 against a missing reliance is similar
C14_Witness ==
    /\ IsFeatures
    /\ ret.home["off_fg3"].k = "absent"
    /\ ret.away["off_fg3"] = Num(400)
    /\ ret.mf.style_clash = "similar"

----------------------------------------------------------------------------
(* Claims on the margins and the win probabilities, checked under Spec *)

\* The summed adjustment after the cap: itself within the cap, else the cap with its sign
Capped(total, cap) == IF total > cap THEN cap ELSE IF total < 0 - cap THEN 0 - cap ELSE total

----------------------------------------------------------------------------
(* normal_cdf on the quotient of a margin and a positive sigma *)

\* Margins and sigmas in tenths of a point
Margins == {0 - 1200, 0 - 1000, 0 - 920, 0 - 500, 0 - 132, 0 - 100, 0 - 35, 0 - 1, 0,
            1, 35, 100, 132, 500, 910, 1000, 1200}
Sigmas == {95, 110, 130}

\* normal_cdf(margin / sigma), as in predict_game lines 728 and 739
NormalCdf(margin, sigma) ==
    /\ Idle
    /\ ret' = [Called("normal_cdf") EXCEPT
                 !.margin = margin, !.sigma = sigma,
                 !.val = normal_cdf(Quot(margin * 100, sigma))]
    /\ UNCHANGED <<disk, cache, seen, threadVars, client>>

\* The caller keeps a probability to compare with a later one
RememberCdf ==
    /\ ret.op = "normal_cdf"
    /\ seen' = ret
    /\ ret' = NoCall
    /\ UNCHANGED <<disk, cache, threadVars, client>>

NextCdf ==
    \/ \E margin \in Margins, sigma \in Sigmas : NormalCdf(margin, sigma)
    \/ RememberCdf
    \/ Discard

InitCdf == Init /\ disk = 0

SpecCdf == InitCdf /\ [][NextCdf]_vars

\* C16 as stated: for every margin m and positive sigma, normal_cdf(m / sigma) lies
\* strictly between 0 and 1, increases strictly with m, and normal_cdf(0) is 0.5.
\* (Of two margins, the probabilities are compared as far as the truncated values
\* tell: a tie counts when both are exactly 0.0 or exactly 1.0.)
C16_NormalCdfStrictlyInsideAndIncreasing ==
    ret.op = "normal_cdf" =>
        /\ ret.val > 0 /\ ret.val < 10000
        /\ ret.margin = 0 => ret.val = 5000
        /\ (seen.op = "normal_cdf" /\ seen.sigma = ret.sigma /\ seen.margin < ret.margin) =>
              /\ seen.val <= ret.val
              /\ seen.val = ret.val => seen.val \notin {0, 10000}

----------------------------------------------------------------------------
(* Claims on the components of the adjustment, checked under Spec *)

\* The pace component by its formula: (|delta_tempo| / 5) x coefficient, positive when
\* the home team controls the pace, negative when the away team does, 0 when neutral
PaceFormula(mf, coefficients) ==
    LET magnitude == Abs(mf.delta_tempo) * Injected(coefficients, "pace_control_per_5_tempo") * 6
    IN IF mf.pace_control = "home_controls" THEN magnitude
       ELSE IF mf.pace_control = "away_controls" THEN 0 - magnitude
       ELSE 0

\* The summed adjustment exceeds the cap
Clamped == Abs(BreakdownSum(ret.pred.adjustment_breakdown)) > CapOf(ret.coefficients)

\* C17: when the summed adjustment is clamped, each of the four components of
\* adjustment_breakdown still has its own unclamped formula value; only the total
\* applied to margin_enhanced is cut to the cap.
C17_BreakdownUnclampedWhenCapped ==
    (IsPrediction /\ Clamped) =>
        LET b == ret.pred.adjustment_breakdown
            coef == ret.coefficients
        IN /\ b.pace_control = PaceFormula(ret.mf, coef)
           /\ b.shooting_matchup =
                 (ret.mf.shooting_defense_advantage - ret.mf.shooting_advantage)
                 * Injected(coef, "shooting_matchup_per_5_efg") * 6
           /\ b.turnover_battle =
                 ret.mf.turnover_advantage * Injected(coef, "turnover_battle_per_2_to") * 15
           /\ b.rebounding_edge =
                 0 - ret.mf.rebounding_advantage * Injected(coef, "rebounding_edge_per_3_or") * 10
           /\ Abs(ret.pred.margin_enhanced - ret.pred.margin_baseline) = CapOf(coef)

\* C17 witness: a clamped prediction on supplied features, all four components nonzero
C17_Witness ==
    /\ IsPrediction /\ Clamped /\ ret.given
    /\ ret.pred.adjustment_breakdown.pace_control # 0
    /\ ret.pred.adjustment_breakdown.shooting_matchup # 0
    /\ ret.pred.adjustment_breakdown.turnover_battle # 0
    /\ ret.pred.adjustment_breakdown.rebounding_edge # 0

----------------------------------------------------------------------------
(* The memoized snapshot under concurrent callers *)

\* C18 as stated: once load_hca_snapshot has loaded a snapshot, later calls use that
\* same snapshot without reading the disk again, and the cached snapshot is changed by
\* nothing except clear_hca_cache (which no thread calls here).
C18_CachedSnapshotNeverReplaced ==
    [][tcache # 0 => (tcache' = tcache /\ nparsed' = nparsed)]_vars

----------------------------------------------------------------------------
(* Claims on the game variance, checked under Spec *)

\* C20: for every call of calculate_sigma_game, var_interaction = 0.015 x
\* tempo_mismatch^2 x m with m = 1.10 for a 3pt_vs_interior style clash and 1.0
\* otherwise, var_away and var_home are the squared sigmas, var_total is the sum of the
\* three, and sigma_game is the square root of var_total (to the thousandth).
C20_SigmaGameFormula ==
    ret.op = "calculate_sigma_game" =>
        LET c == ret.pred.sigma_components
            tm == ret.features.tempo_mismatch
            m == IF ret.features.style_clash = "3pt_vs_interior" THEN 1100 ELSE 1000
            sigma_game == ret.pred.sigma_game
        IN /\ c.var_interaction = (15 * tm * tm * m) \div 100
           /\ c.var_away = ret.away["sigma"].v * ret.away["sigma"].v * 10000
           /\ c.var_home = ret.home["sigma"].v * ret.home["sigma"].v * 10000
           /\ c.var_total = c.var_away + c.var_home + c.var_interaction
           /\ sigma_game >= 0
           /\ sigma_game * sigma_game <= c.var_total
           /\ c.var_total < (sigma_game + 1) * (sigma_game + 1)

\* C20 witness: a call with a tempo mismatch and a 3pt_vs_interior style clash
C20_Witness ==
    /\ ret.op = "calculate_sigma_game"
    /\ ret.features.style_clash = "3pt_vs_interior"
    /\ ret.features.tempo_mismatch > 0
    /\ ret.pred.sigma_components.var_interaction > 0
    /\ ret.pred.sigma_game > ret.away["sigma"].v * 100
    /\ ret.pred.sigma_game > ret.home["sigma"].v * 100
    /\ ret.away["sigma"].v > 0 /\ ret.home["sigma"].v > 0

----------------------------------------------------------------------------
(* prediction.py: calculate_sigma_game on features that differ in style_clash only *)

\* calculate_sigma_game(away_sigma, home_sigma, clash) and the same call on features
\* whose style_clash is "similar": the first result is kept in pred, the second in other
CompareStyleClash(away_sigma, home_sigma, tempo_mismatch) ==
    /\ Idle
    /\ \E similar \in {[Features(tempo_mismatch, 0, 0, 0, 0, "neutral", "similar", 35)
                          EXCEPT !.tempo_mismatch = tempo_mismatch]} :
       \E clash \in {[similar EXCEPT !.style_clash = "3pt_vs_interior",
                                     !.home_3pt_reliance = 450,
                                     !.away_3pt_reliance = 250]} :
       \E r \in {calculate_sigma_game(away_sigma, home_sigma, clash)},
          q \in {calculate_sigma_game(away_sigma, home_sigma, similar)} :
          /\ ret' = [Called("calculate_sigma_game") EXCEPT
                       !.away = WithField(Bare, "sigma", Num(away_sigma)),
                       !.home = WithField(Bare, "sigma", Num(home_sigma)),
                       !.given = TRUE, !.features = clash, !.val = 2,
                       !.pred = [NoPrediction EXCEPT !.sigma_game = r.sigma_game,
                                                     !.sigma_components = r.components],
                       !.other = [NoPrediction EXCEPT !.sigma_game = q.sigma_game,
                                                      !.sigma_components = q.components]]
          /\ UNCHANGED <<disk, cache, seen, threadVars, client>>

NextStyle ==
    \/ \E away_sigma \in {0, 95, 100, 105, 112, 130},
          home_sigma \in {0, 95, 100, 105, 112, 130},
          tempo_mismatch \in {0, 1, 10, 50, 100, 150} :
          CompareStyleClash(away_sigma, home_sigma, tempo_mismatch)
    \/ Discard

SpecStyle == InitCdf /\ [][NextStyle]_vars

IsStylePair == ret.op = "calculate_sigma_game" /\ ret.val = 2

\* C21 as stated: for all team sigmas and every tempo_mismatch, sigma_game under
\* style_clash "3pt_vs_interior" is strictly greater than under "similar" (the square
\* root is strictly increasing, so the comparison is made on the variance under it).
C21_ClashAlwaysStrictlyGreater ==
    IsStylePair =>
        ret.pred.sigma_components.var_total > ret.other.sigma_components.var_total

\* C21 amended: sigma_game under "3pt_vs_interior" is never smaller than under
\* "similar"; its variance is strictly greater whenever tempo_mismatch is not 0, and
\* the two results are equal when tempo_mismatch is 0.
C21_ClashGreaterWithTempoMismatch ==
    IsStylePair =>
        /\ ret.pred.sigma_game >= ret.other.sigma_game
        /\ ret.features.tempo_mismatch # 0 =>
              ret.pred.sigma_components.var_total > ret.other.sigma_components.var_total
        /\ ret.features.tempo_mismatch = 0 =>
              /\ ret.pred.sigma_game = ret.other.sigma_game
              /\ ret.pred.sigma_components = ret.other.sigma_components

\* C21 witness: the test's pair (sigmas 10.0, tempo mismatch 5.0) with a larger sigma_game
C21_Witness ==
    /\ IsStylePair
    /\ ret.away["sigma"].v = 100 /\ ret.home["sigma"].v = 100
    /\ ret.features.tempo_mismatch = 50
    /\ ret.pred.sigma_game > ret.other.sigma_game

----------------------------------------------------------------------------
(* prediction.py: score projections *)

\* Projected scores are held in 1/200000 point: possessions in twentieths times an
\* efficiency in hundredths, the scale on which  poss * E / 100  is exact.
ScoreUnit == 20 * 100 * 100

\* sigmoid_winprob(margin, k) = 1 / (1 + exp(-margin / k)), the quotient in hundredths and
\* the result in ten-thousandths: the values at 0, 1, ..., 9, interpolated and truncated
sigmoid_winprob(z) ==
    LET table == <<5000, 7310, 8807, 9525, 9820, 9933, 9975, 9990, 9996, 9998>>
        az == Abs(z)
        upper == IF az >= 900 THEN table[10]
                 ELSE LET i == (az \div 100) + 1
                      IN table[i] + ((table[i + 1] - table[i]) * (az % 100)) \div 100
    IN IF z >= 0 THEN upper ELSE 10000 - upper

\* calculate_luck_adjustment(luck): -luck * LUCK_REGRESSION_FACTOR * 10.0, luck and the
\* result in hundredths
calculate_luck_adjustment(luck) == IF luck.k = "num" THEN 0 - luck.v * 5 ELSE 0

\* project_scores that adds the whole advantage to the home score
project_scores_unsplit(home, visitor, home_adv, k) ==
    LET poss == home.AdjTempo + visitor.AdjTempo
        e_home == home.AdjOE + visitor.AdjDE
        e_visitor == visitor.AdjOE + home.AdjDE
        proj_home == poss * e_home * 5 + home_adv * (ScoreUnit \div 10)
        proj_visitor == poss * e_visitor * 5
        win_prob_home == sigmoid_winprob(Quot(proj_home - proj_visitor, 200 * k))
    IN [raised |-> IF k = 0 THEN "ZeroDivisionError" ELSE "",
        proj_home |-> proj_home, proj_visitor |-> proj_visitor,
        proj_total |-> proj_home + proj_visitor, proj_margin |-> proj_home - proj_visitor,
        possessions |-> poss, win_prob_home |-> win_prob_home,
        win_prob_visitor |-> 10000 - win_prob_home, home_adv |-> home_adv, k |-> k,
        method |-> IF home.archive THEN "archive" ELSE "ratings",
        feature_source |-> <<IF home.archive THEN "archive" ELSE "ratings", home.Date>>]

\* project_scores(home, visitor, home_adv, k): tempo, efficiencies, home_adv and k in
\* tenths; the advantage is split evenly across the two scores
project_scores(home, visitor, home_adv, k) ==
    LET \* possessions and efficiencies in twentieths
        poss == home.AdjTempo + visitor.AdjTempo
        e_home == home.AdjOE + visitor.AdjDE
        e_visitor == visitor.AdjOE + home.AdjDE
        raw_home == poss * e_home * 5
        raw_visitor == poss * e_visitor * 5
        proj_home == raw_home + (home_adv * (ScoreUnit \div 10)) \div 2
        proj_visitor == raw_visitor - (home_adv * (ScoreUnit \div 10)) \div 2
        proj_total == proj_home + proj_visitor
        proj_margin == proj_home - proj_visitor
        win_prob_home == sigmoid_winprob(Quot(proj_margin, 200 * k))
    IN [raised |-> IF k = 0 THEN "ZeroDivisionError" ELSE "",
        proj_home |-> proj_home, proj_visitor |-> proj_visitor,
        proj_total |-> proj_total, proj_margin |-> proj_margin,
        possessions |-> poss, win_prob_home |-> win_prob_home,
        win_prob_visitor |-> 10000 - win_prob_home, home_adv |-> home_adv, k |-> k,
        method |-> IF home.archive THEN "archive" ELSE "ratings",
        feature_source |-> <<IF home.archive THEN "archive" ELSE "ratings", home.Date>>]

\* project_scores_loglinear(home, visitor, home_adv, k, pred_tempo, apply_luck_regression):
\* pred_tempo is None or Num(tenths); hca_efficiency = home_adv * 100.0 / poss is kept
\* as the fraction num / den of hundredths, so that  poss * eff_home  stays exact
project_scores_loglinear(home, visitor, home_adv, k, pred_tempo, apply_luck_regression) ==
    LET poss == IF pred_tempo.k # "none" THEN 2 * pred_tempo.v
                ELSE home.AdjTempo + visitor.AdjTempo
        eff_home_raw == (home.AdjOE + visitor.AdjDE - 1000) * 10
        eff_visitor_raw == (visitor.AdjOE + home.AdjDE - 1000) * 10
        luck_adj_home ==
            IF apply_luck_regression THEN calculate_luck_adjustment(home.Luck) ELSE 0
        luck_adj_visitor ==
            IF apply_luck_regression THEN calculate_luck_adjustment(visitor.Luck) ELSE 0
        hca_efficiency == [num |-> home_adv * (ScoreUnit \div 10), den |-> poss]
        \* poss * eff_home and poss * eff_visitor
        proj_home == poss * (eff_home_raw + luck_adj_home)
                        + (poss * hca_efficiency.num) \div hca_efficiency.den
        proj_visitor == poss * (eff_visitor_raw + luck_adj_visitor)
        proj_total == proj_home + proj_visitor
        proj_margin == proj_home - proj_visitor
        win_prob_home == normal_cdf(Quot(proj_margin, 200 * k))
    IN IF poss = 0 \/ k = 0
       THEN [raised |-> "ZeroDivisionError"]
       ELSE [raised |-> "",
             proj_home |-> proj_home, proj_visitor |-> proj_visitor,
             proj_total |-> proj_total, proj_margin |-> proj_margin,
             possessions |-> poss, win_prob_home |-> win_prob_home,
             win_prob_visitor |-> 10000 - win_prob_home, home_adv |-> home_adv,
             hca_efficiency |-> hca_efficiency, k |-> k,
             method |-> IF home.archive THEN "loglinear_archive" ELSE "loglinear",
             feature_source |-> <<IF home.archive THEN "archive" ELSE "ratings", home.Date>>,
             luck_adjustment_home |-> luck_adj_home,
             luck_adjustment_visitor |-> luck_adj_visitor,
             eff_home_raw |-> eff_home_raw, eff_visitor_raw |-> eff_visitor_raw]

\* Rating and ArchiveRating objects (an ArchiveRating has no Luck attribute)
ScoreRatings ==
    { [archive |-> FALSE, Date |-> "2025-01-15", AdjTempo |-> 680, AdjOE |-> 1200,
       AdjDE |-> 950, Luck |-> Num(5)],
      [archive |-> FALSE, Date |-> "2025-01-15", AdjTempo |-> 725, AdjOE |-> 1153,
       AdjDE |-> 987, Luck |-> Num(0 - 3)],
      [archive |-> FALSE, Date |-> "2025-01-15", AdjTempo |-> 701, AdjOE |-> 1050,
       AdjDE |-> 1050, Luck |-> None],
      [archive |-> TRUE, Date |-> "2024-03-14", AdjTempo |-> 650, AdjOE |-> 1087,
       AdjDE |-> 1021, Luck |-> Absent] }

\* Two calls of one projection variant that differ in home_adv only, by d: the first
\* result is kept in proj, the second (home_adv + d) in other
RaiseHomeAdv(loglinear, home, visitor, home_adv, d, pred_tempo, apply_luck_regression) ==
    /\ Idle
    /\ \E r \in {IF loglinear
                 THEN project_scores_loglinear(home, visitor, home_adv, 110, pred_tempo,
                                               apply_luck_regression)
                 ELSE project_scores(home, visitor, home_adv, 110)},
          q \in {IF loglinear
                 THEN project_scores_loglinear(home, visitor, home_adv + d, 110, pred_tempo,
                                               apply_luck_regression)
                 ELSE project_scores(home, visitor, home_adv + d, 110)} :
          /\ ret' = [Called(IF loglinear THEN "project_scores_loglinear"
                                         ELSE "project_scores") EXCEPT
                       !.raised = r.raised, !.proj = r, !.other = q, !.val = d]
          /\ UNCHANGED <<disk, cache, seen, threadVars, client>>

----------------------------------------------------------------------------
(* calculate_real_edge.py and find_betting_edge.py: spread and moneyline edges.
   Margins, spreads and sigmas are in tenths, probabilities in ten-thousandths, odds
   are American odds. A quotient of odds is kept as the fraction n / d (d > 0) of
   ten-thousandths, so that signs and comparisons of expected values are exact. *)

\* american_to_implied_prob(american_odds), the same code as find_betting_edge's
\* american_to_implied_probability: the fraction n / d of 1
american_to_implied_prob(american_odds) ==
    IF american_odds > 0 THEN [n |-> 100, d |-> american_odds + 100]
    ELSE [n |-> Abs(american_odds), d |-> Abs(american_odds) + 100]

\* calculate_ev(win_prob, american_odds) = win_prob * (decimal_odds - 1) - (1 - win_prob),
\* with decimal_odds - 1 = american_odds / 100 or 100 / |american_odds|; the same code
\* as find_betting_edge's calculate_expected_value
calculate_ev(win_prob, american_odds) ==
    IF american_odds > 0
    THEN [n |-> win_prob * american_odds - (10000 - win_prob) * 100, d |-> 100]
    ELSE [n |-> win_prob * 100 - (10000 - win_prob) * Abs(american_odds),
          d |-> Abs(american_odds)]

\* calculate_real_edge.cover_probability: z_score = (predicted_margin + spread) / avg_sigma
cover_probability(predicted_margin, spread, avg_sigma) ==
    normal_cdf(Quot((predicted_margin + spread) * 100, avg_sigma))

\* find_betting_edge.cover_probability: z_score = (predicted_margin - spread) / avg_sigma
fbe_cover_probability(predicted_margin, spread, avg_sigma) ==
    normal_cdf(Quot((predicted_margin - spread) * 100, avg_sigma))

\* calculate_real_edge.analyze_spread_edge
analyze_spread_edge(home_team, away_team, predicted_margin, market_spread, spread_odds, avg_sigma) ==
    LET spread_edge == predicted_margin + market_spread
        home_cover_prob == cover_probability(predicted_margin, market_spread, avg_sigma)
        away_cover_prob == 10000 - home_cover_prob
        home_ev == calculate_ev(home_cover_prob, spread_odds)
        away_ev == calculate_ev(away_cover_prob, spread_odds)
        pass == Abs(spread_edge) < 10
        abs_edge == Abs(spread_edge)
    IN [game |-> <<away_team, "@", home_team>>,
        model_spread |-> <<home_team, predicted_margin>>,
        market_spread_str |-> <<home_team, market_spread>>,
        spread_edge |-> spread_edge,
        home_cover_prob |-> home_cover_prob, away_cover_prob |-> away_cover_prob,
        market_implied |-> american_to_implied_prob(spread_odds),
        recommendation |-> IF pass THEN <<"PASS">>
                           ELSE IF spread_edge > 0 THEN <<home_team, market_spread>>
                           ELSE <<away_team, 0 - market_spread>>,
        bet_team |-> IF pass THEN "None" ELSE IF spread_edge > 0 THEN home_team ELSE away_team,
        expected_value |-> IF pass THEN [n |-> 0, d |-> 1]
                           ELSE IF spread_edge > 0 THEN home_ev ELSE away_ev,
        bet_probability |-> IF pass THEN 5000
                            ELSE IF spread_edge > 0 THEN home_cover_prob ELSE away_cover_prob,
        strength |-> IF abs_edge >= 30 THEN "VERY STRONG"
                     ELSE IF abs_edge >= 20 THEN "STRONG"
                     ELSE IF abs_edge >= 10 THEN "MODERATE"
                     ELSE "WEAK",
        avg_sigma |-> avg_sigma, spread_odds |-> spread_odds]

\* find_betting_edge.analyze_spread_value: game is a row of the predictions CSV
analyze_spread_value(game, market_spread, odds) ==
    LET predicted_margin == game.predicted_margin
        avg_sigma == game.avg_sigma
        spread_edge == predicted_margin - market_spread
        home_cover_prob == fbe_cover_probability(predicted_margin, market_spread, avg_sigma)
        away_cover_prob == 10000 - home_cover_prob
        home_ev == calculate_ev(home_cover_prob, odds)
        away_ev == calculate_ev(away_cover_prob, odds)
    IN [game |-> <<game.away_team, "@", game.home_team>>,
        model_spread |-> <<game.home_team, predicted_margin>>,
        market_spread |-> <<game.home_team, market_spread>>,
        spread_edge |-> spread_edge,
        home_cover_prob |-> home_cover_prob, away_cover_prob |-> away_cover_prob,
        market_implied |-> american_to_implied_prob(odds),
        recommendation |-> IF spread_edge > 0 THEN <<"Bet", game.home_team, market_spread>>
                           ELSE <<"Bet", game.away_team, 0 - market_spread>>,
        edge_team |-> IF spread_edge > 0 THEN game.home_team ELSE game.away_team,
        expected_value |-> IF spread_edge > 0 THEN home_ev ELSE away_ev,
        strength |-> IF Abs(spread_edge) >= 20 THEN "STRONG"
                     ELSE IF Abs(spread_edge) >= 10 THEN "MODERATE"
                     ELSE "WEAK",
        avg_sigma |-> avg_sigma]

\* The moneyline analysis both scripts share: the best bet by expected value, and the
\* strength of its probability edge by the thresholds very, strong, moderate (a
\* threshold of 0 - 1 is not used). An edge p - n / d is kept as the fraction
\* (p * d - 10000 * n) / d.
MoneylineBest(home_team, away_team, home_win_prob, away_win_prob, home_ml, away_ml, very, strong, moderate) ==
    LET market_home_prob == american_to_implied_prob(home_ml)
        market_away_prob == american_to_implied_prob(away_ml)
        home_edge == [n |-> home_win_prob * market_home_prob.d - 10000 * market_home_prob.n,
                      d |-> market_home_prob.d]
        away_edge == [n |-> away_win_prob * market_away_prob.d - 10000 * market_away_prob.n,
                      d |-> market_away_prob.d]
        home_ev == calculate_ev(home_win_prob, home_ml)
        away_ev == calculate_ev(away_win_prob, away_ml)
        \* max(a, b) of two fractions: b when a < b, else a
        max(a, b) == IF a.n * b.d < b.n * a.d THEN b ELSE a
        home == home_ev.n * away_ev.d > away_ev.n * home_ev.d /\ home_ev.n > 0
        away == ~home /\ away_ev.n > 0
        prob_edge == IF home THEN home_edge
                     ELSE IF away THEN away_edge
                     ELSE max(home_edge, away_edge)
        abs_edge == Abs(prob_edge.n)
    IN [game |-> <<away_team, "@", home_team>>,
        model_probs |-> <<home_win_prob, away_win_prob>>,
        market_probs |-> <<market_home_prob, market_away_prob>>,
        home_edge |-> home_edge, away_edge |-> away_edge,
        best_bet |-> IF home THEN home_team ELSE IF away THEN away_team ELSE "PASS",
        best_odds |-> IF home THEN home_ml ELSE IF away THEN away_ml ELSE 0,
        expected_value |-> IF home THEN home_ev
                           ELSE IF away THEN away_ev
                           ELSE max(home_ev, away_ev),
        bet_probability |-> IF home THEN home_win_prob
                            ELSE IF away THEN away_win_prob
                            ELSE 5000,
        prob_edge |-> prob_edge,
        strength |-> IF very >= 0 /\ abs_edge >= very * prob_edge.d THEN "VERY STRONG"
                     ELSE IF abs_edge >= strong * prob_edge.d THEN "STRONG"
                     ELSE IF abs_edge >= moderate * prob_edge.d THEN "MODERATE"
                     ELSE "WEAK",
        home_ev |-> home_ev, away_ev |-> away_ev]

\* analyze_moneyline_edge that lets the home side win ties and losing bets
analyze_moneyline_edge_eager(home_team, away_team, home_win_prob, away_win_prob, home_ml, away_ml) ==
    IF home_ml.k = "none" \/ away_ml.k = "none"
    THEN [game |-> <<away_team, "@", home_team>>,
          recommendation |-> "MONEYLINE NOT OFFERED",
          expected_value |-> [n |-> 0, d |-> 1], strength |-> "N/A"]
    ELSE [MoneylineBest(home_team, away_team, home_win_prob, away_win_prob,
                        home_ml.v, away_ml.v, 1000, 500, 300)
            EXCEPT !.best_bet = home_team]

\* calculate_real_edge.analyze_moneyline_edge: home_ml and away_ml are None or Num(odds)
analyze_moneyline_edge(home_team, away_team, home_win_prob, away_win_prob, home_ml, away_ml) ==
    IF home_ml.k = "none" \/ away_ml.k = "none"
    THEN [game |-> <<away_team, "@", home_team>>,
          recommendation |-> "MONEYLINE NOT OFFERED",
          expected_value |-> [n |-> 0, d |-> 1], strength |-> "N/A"]
    ELSE MoneylineBest(home_team, away_team, home_win_prob, away_win_prob,
                       home_ml.v, away_ml.v, 1000, 500, 300)

\* find_betting_edge.analyze_moneyline_value: its strengths stop at STRONG
analyze_moneyline_value(game, home_ml, away_ml) ==
    MoneylineBest(game.home_team, game.away_team, game.home_win_prob, game.away_win_prob,
                  home_ml, away_ml, 0 - 1, 500, 300)

\* A call of one of the two spread routines on the same game and market line
AnalyzeSpread(routine, predicted_margin, market_spread, odds, avg_sigma) ==
    /\ Idle
    /\ \E r \in {IF routine = "analyze_spread_edge"
                 THEN analyze_spread_edge("Duke", "UNC", predicted_margin, market_spread,
                                          odds, avg_sigma)
                 ELSE analyze_spread_value(
                          [predicted_margin |-> predicted_margin, avg_sigma |-> avg_sigma,
                           home_team |-> "Duke", away_team |-> "UNC"],
                          market_spread, odds)} :
          /\ ret' = [Called(routine) EXCEPT
                       !.proj = r,
                       !.args = [home_team |-> "Duke", away_team |-> "UNC",
                                 predicted_margin |-> predicted_margin,
                                 market_spread |-> market_spread, odds |-> odds,
                                 avg_sigma |-> avg_sigma]]
          /\ UNCHANGED <<disk, cache, seen, threadVars, client>>

\* A call of one of the two moneyline routines; analyze_moneyline_value is called by
\* its script with both prices present
AnalyzeMoneyline(routine, home_win_prob, away_win_prob, home_ml, away_ml) ==
    /\ Idle
    /\ routine = "analyze_moneyline_value" => home_ml.k = "num" /\ away_ml.k = "num"
    /\ \E r \in {IF routine = "analyze_moneyline_edge"
                 THEN analyze_moneyline_edge("Duke", "UNC", home_win_prob, away_win_prob,
                                             home_ml, away_ml)
                 ELSE analyze_moneyline_value(
                          [home_win_prob |-> home_win_prob, away_win_prob |-> away_win_prob,
                           home_team |-> "Duke", away_team |-> "UNC"],
                          home_ml.v, away_ml.v)} :
          /\ ret' = [Called(routine) EXCEPT
                       !.proj = r,
                       !.args = [home_team |-> "Duke", away_team |-> "UNC",
                                 home_win_prob |-> home_win_prob,
                                 away_win_prob |-> away_win_prob,
                                 home_ml |-> home_ml, away_ml |-> away_ml]]
          /\ UNCHANGED <<disk, cache, seen, threadVars, client>>

----------------------------------------------------------------------------
(* slate.py: fanmatch_slate_table and validate_backtest.
   Tempos, efficiencies, Fanmatch scores, home_adv and k are in tenths, Luck in
   hundredths; a table row holds scores in tenths (round(x, 1)). *)

\* Python's round(a / b, n) for b > 0, in units of the last kept digit: the nearest
\* integer to a / b, a tie going to the even one
RoundHalfEven(a, b) ==
    LET q == a \div b
        r == a % b
    IN IF 2 * r < b THEN q
       ELSE IF 2 * r > b THEN q + 1
       ELSE IF q % 2 = 0 THEN q ELSE q + 1

\* The rows the ratings endpoint and the archive endpoint return for team ids 1 and 2;
\* an archive row has no Luck
SlateFeatures ==
    [ratings |-> <<[AdjOE |-> Num(1200), AdjDE |-> Num(950), AdjTempo |-> Num(680),
                    Luck |-> Num(5)],
                   [AdjOE |-> Num(1153), AdjDE |-> Num(987), AdjTempo |-> Num(725),
                    Luck |-> None]>>,
     archive |-> <<[AdjOE |-> Num(1180), AdjDE |-> Num(960), AdjTempo |-> Num(670),
                    Luck |-> Absent],
                   [AdjOE |-> Num(1140), AdjDE |-> Num(1000), AdjTempo |-> Num(715),
                    Luck |-> Absent]>>]

\* Fanmatch slates: games between Duke (team id 1), UNC (team id 2) and a team the
\* teams endpoint does not list; PredTempo, HomePred and VisitorPred are Python values
Slates ==
    LET game(home, visitor, tempo, hp, vp) ==
            [Home |-> home, Visitor |-> visitor, PredTempo |-> tempo,
             HomePred |-> hp, VisitorPred |-> vp]
    IN { << >>,
         <<game("Duke", "UNC", Num(690), Num(750), Num(712))>>,
         <<game("duke ", "UNC", Absent, Num(750), None),
           game("UNC", "Duke", None, Num(801), Num(694))>>,
         <<game("Ghost", "Duke", Num(690), Num(750), Num(712))>>,
         <<game("Ghost", "Duke", Num(690), Num(750), Num(712)),
           game("Duke", "UNC", Num(700), Absent, Absent)>> }

\* fanmatch_slate_table(d=..., ...). archive[team_id] tells what the archive endpoint
\* has for the team on date d: "ok", "empty" (no row) or "nokey" (a row without tempo).
\* The result is the DataFrame: its rows in order, and its columns; a cell a row has no
\* value for is "NaN".
fanmatch_slate_table(slate, archive, k, home_adv, use_fanmatch_scores, include_raw_fanmatch, use_archive, archive_fallback_to_ratings, use_loglinear, use_pred_tempo, apply_luck_regression) ==
    LET \* name_to_id.get(team_name.strip().lower()), 0 for None
        lookup_team_id(team_name) ==
            LET key == IF team_name \in {"Duke", "duke "} THEN "duke"
                       ELSE IF team_name \in {"UNC", "unc"} THEN "unc"
                       ELSE team_name
            IN IF key = "duke" THEN 1 ELSE IF key = "unc" THEN 2 ELSE 0
        \* get_features(team_id): (feature_row, source_label, warning) or an exception
        get_features(team_id) ==
            IF ~use_archive
            THEN [raised |-> "", row |-> SlateFeatures.ratings[team_id], src |-> "ratings",
                  warn |-> ""]
            ELSE LET a == IF archive[team_id] = "nokey"
                          THEN [SlateFeatures.archive[team_id] EXCEPT !.AdjTempo = Absent]
                          ELSE SlateFeatures.archive[team_id]
                     e == IF archive[team_id] = "empty" THEN "RuntimeError"
                          ELSE IF \E key \in {"AdjOE", "AdjDE", "AdjTempo"} : a[key].k # "num"
                               THEN "KeyError"
                          ELSE ""
                 IN IF e = ""
                    THEN [raised |-> "", row |-> a, src |-> "archive", warn |-> ""]
                    ELSE IF archive_fallback_to_ratings
                    THEN [raised |-> "", row |-> SlateFeatures.ratings[team_id],
                          src |-> "ratings_fallback",
                          warn |-> "archive_failed_fallback_to_ratings"]
                    ELSE [raised |-> e, row |-> a, src |-> "", warn |-> ""]
        raw(g, kk) == IF include_raw_fanmatch THEN g[kk] ELSE Absent
        \* the row of a game whose teams have the features h and v
        Projected(g, h, v) ==
            LET fh == h.row
                fv == v.row
                average == fh.AdjTempo.v + fv.AdjTempo.v
                \* possessions in twentieths
                poss == IF use_pred_tempo /\ g.PredTempo.k # "absent"
                        THEN (IF g.PredTempo.k = "num" THEN 2 * g.PredTempo.v ELSE average)
                        ELSE average
                luck_adj_home == IF use_loglinear /\ apply_luck_regression
                                 THEN calculate_luck_adjustment(fh.Luck) ELSE 0
                luck_adj_vis == IF use_loglinear /\ apply_luck_regression
                                THEN calculate_luck_adjustment(fv.Luck) ELSE 0
                hca_num == home_adv * (ScoreUnit \div 10)
                \* poss * (E_home / 100.0) and poss * (E_vis / 100.0)
                base_home ==
                    IF use_loglinear
                    THEN poss * ((fh.AdjOE.v + fv.AdjDE.v - 1000) * 10 + luck_adj_home)
                            + (poss * hca_num) \div poss
                    ELSE poss * (fh.AdjOE.v + fv.AdjDE.v) * 5
                base_vis ==
                    IF use_loglinear
                    THEN poss * ((fv.AdjOE.v + fh.AdjDE.v - 1000) * 10 + luck_adj_vis)
                    ELSE poss * (fv.AdjOE.v + fh.AdjDE.v) * 5
                \* the try block assigns score_home before it converts VisitorPred
                fan_home == use_fanmatch_scores /\ g.HomePred.k = "num"
                fan_vis == fan_home /\ g.VisitorPred.k = "num"
                split == IF use_loglinear THEN 0 ELSE hca_num \div 2
                score_home == (IF fan_home THEN g.HomePred.v * (ScoreUnit \div 10)
                               ELSE base_home) + split
                score_vis == (IF fan_vis THEN g.VisitorPred.v * (ScoreUnit \div 10)
                              ELSE base_vis) - split
                margin == score_home - score_vis
                total == score_home + score_vis
                p_home == sigmoid_winprob(Quot(margin, 200 * k))
                exc == IF h.raised # "" THEN h.raised
                       ELSE IF v.raised # "" THEN v.raised
                       ELSE IF use_loglinear /\ poss = 0 THEN "ZeroDivisionError"
                       ELSE ""
                warnings == (IF h.warn # "" THEN <<<<"home", h.warn>>>> ELSE << >>)
                               \o (IF v.warn # "" THEN <<<<"visitor", v.warn>>>> ELSE << >>)
            IN IF exc # "" THEN [raised |-> exc]
               ELSE [raised |-> "",
                     home |-> g.Home, visitor |-> g.Visitor, error |-> "",
                     proj_home |-> RoundHalfEven(score_home, ScoreUnit \div 10),
                     proj_visitor |-> RoundHalfEven(score_vis, ScoreUnit \div 10),
                     proj_total |-> RoundHalfEven(total, ScoreUnit \div 10),
                     proj_margin |-> RoundHalfEven(margin, ScoreUnit \div 10),
                     win_prob_home |-> p_home, win_prob_visitor |-> 10000 - p_home,
                     possessions |-> RoundHalfEven(poss * 100, 20),
                     feature_source_home |-> h.src, feature_source_visitor |-> v.src,
                     method |-> IF use_fanmatch_scores THEN "fanmatch_scores"
                                ELSE IF use_loglinear
                                THEN (IF use_archive THEN "loglinear_archive" ELSE "loglinear")
                                ELSE IF use_archive THEN "archive_to_points"
                                ELSE "ratings_to_points",
                     luck_adj_home |-> luck_adj_home, luck_adj_visitor |-> luck_adj_vis,
                     warnings |-> warnings,
                     fanmatch_PredTempo |-> raw(g, "PredTempo"),
                     fanmatch_HomePred |-> raw(g, "HomePred"),
                     fanmatch_VisitorPred |-> raw(g, "VisitorPred")]
        Row(g, home_id, vis_id) ==
               IF home_id = 0 \/ vis_id = 0
               THEN [raised |-> "", home |-> g.Home, visitor |-> g.Visitor,
                     error |-> "TeamID mapping failed",
                     proj_home |-> 0, proj_visitor |-> 0, proj_total |-> 0,
                     proj_margin |-> 0, win_prob_home |-> 0, win_prob_visitor |-> 0,
                     possessions |-> 0, feature_source_home |-> "NaN",
                     feature_source_visitor |-> "NaN", method |-> "NaN",
                     luck_adj_home |-> 0, luck_adj_visitor |-> 0, warnings |-> << >>,
                     fanmatch_PredTempo |-> raw(g, "PredTempo"),
                     fanmatch_HomePred |-> raw(g, "HomePred"),
                     fanmatch_VisitorPred |-> raw(g, "VisitorPred")]
               ELSE Projected(g, get_features(home_id), get_features(vis_id))
        \* the DataFrame of the rows, or the exception of the first game that raised
        Frame(rows) ==
            LET projected == {i \in 1..Len(rows) : rows[i].error = ""}
            \* sort_values(by="proj_margin", key=abs, ascending=False): NaN rows last
            Before(j, i) ==
                \/ j \in projected /\ i \notin projected
                \/ j \in projected /\ i \in projected
                      /\ Abs(rows[j].proj_margin) > Abs(rows[i].proj_margin)
                \/ j < i /\ (j \in projected <=> i \in projected)
                      /\ (j \in projected => Abs(rows[j].proj_margin) = Abs(rows[i].proj_margin))
            place(i) == Cardinality({j \in 1..Len(rows) : Before(j, i)}) + 1
            sorted == [pl \in 1..Len(rows) |-> rows[CHOOSE i \in 1..Len(rows) : place(i) = pl]]
            IN IF \E i \in 1..Len(rows) : rows[i].raised # ""
               THEN [raised |-> rows[CHOOSE i \in 1..Len(rows) :
                                        /\ rows[i].raised # ""
                                        /\ \A j \in 1..(i - 1) : rows[j].raised = ""].raised,
                     rows |-> << >>, columns |-> {}]
               ELSE [raised |-> "",
                     rows |-> IF projected # {} THEN sorted ELSE rows,
                     columns |->
                        (IF rows # << >> THEN {"home", "visitor"} ELSE {})
                        \cup (IF projected # {}
                              THEN {"proj_home", "proj_visitor", "proj_total", "proj_margin",
                                    "feature_source_home", "feature_source_visitor", "method"}
                              ELSE {})
                        \cup (IF projected # DOMAIN rows THEN {"error"} ELSE {})
                        \cup (IF \E i \in projected : rows[i].warnings # << >>
                              THEN {"warnings"} ELSE {})]
    IN Frame([i \in 1..Len(slate) |->
                Row(slate[i], lookup_team_id(slate[i].Home),
                    lookup_team_id(slate[i].Visitor))])

\* validate_backtest(slate_df): the list of warnings
validate_backtest(slate_df) ==
    LET rows == slate_df.rows
        count(col) == Cardinality({i \in 1..Len(rows) : rows[i][col] # "archive"})
        lookahead(col) ==
            IF col \in slate_df.columns /\ count(col) > 0
            THEN <<<<"LOOKAHEAD", count(col), col>>>> ELSE << >>
        fallback_rows == {i \in 1..Len(rows) : rows[i].warnings # << >>}
        \* the methods without "archive" in their name; "NaN" is the cell of an error row
        non_archive_methods ==
            {rows[i].method : i \in 1..Len(rows)}
                \ {"loglinear_archive", "archive_to_points"}
    IN IF rows = << >> THEN << >>
       ELSE lookahead("feature_source_home") \o lookahead("feature_source_visitor")
            \o (IF "warnings" \in slate_df.columns /\ fallback_rows # {}
                THEN <<<<"FALLBACK", Cardinality(fallback_rows)>>>> ELSE << >>)
            \o (IF "method" \in slate_df.columns /\ non_archive_methods # {}
                THEN <<<<"LOOKAHEAD", non_archive_methods>>>> ELSE << >>)

\* A call of fanmatch_slate_table; the table is kept in proj
FanmatchSlateTable(slate, archive, home_adv, flags) ==
    /\ Idle
    /\ \E df \in {fanmatch_slate_table(slate, archive, 110, home_adv,
                      flags.use_fanmatch_scores, flags.include_raw_fanmatch,
                      flags.use_archive, flags.archive_fallback_to_ratings,
                      flags.use_loglinear, flags.use_pred_tempo,
                      flags.apply_luck_regression)} :
          /\ ret' = [Called("fanmatch_slate_table") EXCEPT
                       !.raised = df.raised, !.proj = df,
                       !.args = [flags EXCEPT !.slate = slate, !.archive = archive,
                                              !.home_adv = home_adv]]
          /\ UNCHANGED <<disk, cache, seen, threadVars, client>>

\* validate_backtest on the table the last call returned
ValidateBacktest ==
    /\ ret.op = "fanmatch_slate_table" /\ ret.raised = ""
    /\ ret' = [ret EXCEPT !.op = "validate_backtest", !.warnings = validate_backtest(ret.proj)]
    /\ UNCHANGED <<disk, cache, seen, threadVars, client>>

NextBetting ==
    \/ Idle /\ \E home \in ScoreRatings, visitor \in ScoreRatings, home_adv \in {0, 30, 35},
          d \in {5, 10} :
          \/ RaiseHomeAdv(FALSE, home, visitor, home_adv, d, None, TRUE)
          \/ \E pred_tempo \in {None, Num(0), Num(690)}, apply_luck_regression \in BOOLEAN :
                RaiseHomeAdv(TRUE, home, visitor, home_adv, d, pred_tempo,
                             apply_luck_regression)
    \/ Idle /\ \E routine \in {"analyze_spread_edge", "analyze_spread_value"},
          predicted_margin \in {0 - 50, 0, 5, 35, 187, 207},
          market_spread \in {0 - 180, 0 - 35, 0 - 15, 0, 15, 40},
          odds \in {0 - 110, 100}, avg_sigma \in {110, 130} :
          AnalyzeSpread(routine, predicted_margin, market_spread, odds, avg_sigma)
    \/ Idle /\ \E routine \in {"analyze_moneyline_edge", "analyze_moneyline_value"},
          home_win_prob \in {2500, 4000, 4762, 5000, 5500, 6000, 7500},
          home_ml \in {None, Num(0 - 300), Num(0 - 150), Num(0 - 110), Num(100), Num(130)},
          away_ml \in {None, Num(0 - 150), Num(0 - 110), Num(100), Num(130), Num(250)} :
          AnalyzeMoneyline(routine, home_win_prob, 10000 - home_win_prob, home_ml, away_ml)
    \/ Idle /\ \E slate \in Slates, archive \in [1..2 -> {"ok", "empty", "nokey"}],
          home_adv \in {0, 30},
          flags \in [slate : {<< >>}, archive : {<< >>}, home_adv : {0},
                     use_fanmatch_scores : BOOLEAN, include_raw_fanmatch : BOOLEAN,
                     use_archive : BOOLEAN, archive_fallback_to_ratings : BOOLEAN,
                     use_loglinear : BOOLEAN, use_pred_tempo : BOOLEAN,
                     apply_luck_regression : BOOLEAN] :
          FanmatchSlateTable(slate, archive, home_adv, flags)
    \/ ValidateBacktest
    \/ Discard

SpecBetting == InitCdf /\ [][NextBetting]_vars

IsProjection == ret.op \in {"project_scores", "project_scores_loglinear"} /\ ret.raised = ""

\* C22: with all other inputs fixed, raising home_adv by d raises proj_margin by exactly d
\* in both variants; proj_total is unchanged in the simple-average variant (+d/2 home,
\* -d/2 visitor), and in the log-linear variant only the home score changes, so
\* proj_total rises by d as well.
C22_HomeAdvShiftsMargin ==
    IsProjection =>
        LET d == ret.val * (ScoreUnit \div 10)
        IN /\ ret.other.proj_margin = ret.proj.proj_margin + d
           /\ ret.op = "project_scores" =>
                 /\ ret.other.proj_total = ret.proj.proj_total
                 /\ ret.other.proj_home = ret.proj.proj_home + d \div 2
                 /\ ret.other.proj_visitor = ret.proj.proj_visitor - d \div 2
           /\ ret.op = "project_scores_loglinear" =>
                 /\ ret.other.proj_visitor = ret.proj.proj_visitor
                 /\ ret.other.proj_home = ret.proj.proj_home + d
                 /\ ret.other.proj_total = ret.proj.proj_total + d

\* C22 witnesses: a pair of calls of each variant, on different teams
C22_Witness ==
    /\ IsProjection
    /\ ret.op = "project_scores_loglinear"
    /\ ret.val = 5 /\ ret.proj.home_adv = 30
    /\ ret.proj.luck_adjustment_home # 0
    /\ ret.proj.proj_margin < 0
    /\ ret.other.proj_total = ret.proj.proj_total + 5 * (ScoreUnit \div 10)

----------------------------------------------------------------------------
(* Claims on the edge routines, checked under SpecBetting *)

IsSpreadEdge == ret.op \in {"analyze_spread_edge", "analyze_spread_value"}

\* The side a spread routine recommends
SpreadSide == IF ret.op = "analyze_spread_edge" THEN ret.proj.bet_team ELSE ret.proj.edge_team

\* C23 as stated: every spread-edge routine computes the home cover probability as
\* normal_cdf((predicted_margin + market_spread) / sigma) and the spread edge as
\* predicted_margin + market_spread (market_spread negative = home favoured), and a
\* positive edge always means the home side is the one recommended.
C23_SpreadEdgeInBettingConvention ==
    IsSpreadEdge =>
        /\ ret.proj.home_cover_prob =
              normal_cdf(Quot((ret.args.predicted_margin + ret.args.market_spread) * 100,
                              ret.args.avg_sigma))
        /\ ret.proj.spread_edge = ret.args.predicted_margin + ret.args.market_spread
        /\ ret.proj.spread_edge > 0 => SpreadSide = ret.args.home_team

IsMoneyline == ret.op \in {"analyze_moneyline_edge", "analyze_moneyline_value"}
                  /\ ret.args.home_ml.k = "num" /\ ret.args.away_ml.k = "num"

\* C24 as stated: every spread-edge classifier labels an edge by |edge| alone with
\* >= 3.0 very strong, >= 2.0 strong, >= 1.0 moderate, otherwise weak, and every
\* moneyline classifier labels the probability edge with >= 0.10 / 0.05 / 0.03 for the
\* same four labels.
C24_StrengthByFixedThresholds ==
    /\ IsSpreadEdge =>
          ret.proj.strength =
              IF Abs(ret.proj.spread_edge) >= 30 THEN "VERY STRONG"
              ELSE IF Abs(ret.proj.spread_edge) >= 20 THEN "STRONG"
              ELSE IF Abs(ret.proj.spread_edge) >= 10 THEN "MODERATE"
              ELSE "WEAK"
    /\ IsMoneyline =>
          LET e == ret.proj.prob_edge
          IN ret.proj.strength =
                IF Abs(e.n) >= 1000 * e.d THEN "VERY STRONG"
                ELSE IF Abs(e.n) >= 500 * e.d THEN "STRONG"
                ELSE IF Abs(e.n) >= 300 * e.d THEN "MODERATE"
                ELSE "WEAK"

\* The expected values of the two sides of the moneyline call in ret, computed from its
\* arguments, as fractions
HomeEv == calculate_ev(ret.args.home_win_prob, ret.args.home_ml.v)
AwayEv == calculate_ev(ret.args.away_win_prob, ret.args.away_ml.v)

\* C30: analyze_moneyline_edge with both moneylines present recommends a side only if
\* that side's expected value is strictly positive and not below the other side's, and
\* returns best_bet PASS exactly when neither side has positive expected value.
C30_BestBetHasPositiveValue ==
    (ret.op = "analyze_moneyline_edge" /\ IsMoneyline) =>
        /\ ret.proj.best_bet = ret.args.home_team =>
              /\ HomeEv.n > 0
              /\ HomeEv.n * AwayEv.d >= AwayEv.n * HomeEv.d
              /\ ret.proj.expected_value = HomeEv
        /\ ret.proj.best_bet = ret.args.away_team =>
              /\ AwayEv.n > 0
              /\ AwayEv.n * HomeEv.d >= HomeEv.n * AwayEv.d
              /\ ret.proj.expected_value = AwayEv
        /\ ret.proj.best_bet = "PASS" <=> (HomeEv.n <= 0 /\ AwayEv.n <= 0)
        /\ ret.proj.best_bet \in {ret.args.home_team, ret.args.away_team, "PASS"}

\* C30 witness: a call where both sides have positive expected value and the away side,
\* the larger one, is recommended
C30_Witness ==
    /\ ret.op = "analyze_moneyline_edge" /\ IsMoneyline
    /\ HomeEv.n > 0 /\ AwayEv.n > 0
    /\ ret.proj.best_bet = ret.args.away_team

\* C30 witness of the other outcome: neither side has positive value, and the call passes
C30_WitnessPass ==
    /\ ret.op = "analyze_moneyline_edge" /\ IsMoneyline
    /\ HomeEv.n < 0 /\ AwayEv.n < 0
    /\ ret.proj.best_bet = "PASS"

----------------------------------------------------------------------------
(* Claims on the slate table, checked under SpecBetting *)

IsTable == ret.op \in {"fanmatch_slate_table", "validate_backtest"} /\ ret.raised = ""

\* The game of the slate a row of the table was built from
GameOf(row) ==
    CHOOSE i \in 1..Len(ret.args.slate) :
        ret.args.slate[i].Home = row.home /\ ret.args.slate[i].Visitor = row.visitor

\* C25 as stated: when fanmatch_slate_table is called with use_fanmatch_scores=True and a
\* game carries numeric HomePred and VisitorPred, the row's projected home and visitor
\* scores are exactly those Fanmatch values, and margin and total are derived from them,
\* for both use_loglinear=True and use_loglinear=False.
C25_FanmatchScoresUsedAsGiven ==
    (IsTable /\ ret.args.use_fanmatch_scores) =>
        \A i \in 1..Len(ret.proj.rows) :
            LET row == ret.proj.rows[i]
                g == ret.args.slate[GameOf(row)]
            IN (row.error = "" /\ g.HomePred.k = "num" /\ g.VisitorPred.k = "num") =>
                  /\ row.proj_home = g.HomePred.v
                  /\ row.proj_visitor = g.VisitorPred.v
                  /\ row.proj_margin = g.HomePred.v - g.VisitorPred.v
                  /\ row.proj_total = g.HomePred.v + g.VisitorPred.v

\* C26 as stated: for every table produced by fanmatch_slate_table, validate_backtest
\* returns an empty warning list only if every game row of the table was projected from
\* archive features for both teams; any game for which get_features fell back to
\* ratings, or used ratings directly, yields at least one warning.
C26_NoWarningOnlyForArchiveRows ==
    ret.op = "validate_backtest" =>
        /\ ret.warnings = << >> =>
              \A i \in 1..Len(ret.proj.rows) :
                  /\ ret.proj.rows[i].error = ""
                  /\ ret.proj.rows[i].feature_source_home = "archive"
                  /\ ret.proj.rows[i].feature_source_visitor = "archive"
        /\ (\E i \in 1..Len(ret.proj.rows) :
               \/ ret.proj.rows[i].feature_source_home \in {"ratings", "ratings_fallback"}
               \/ ret.proj.rows[i].feature_source_visitor \in {"ratings", "ratings_fallback"})
              => ret.warnings # << >>

----------------------------------------------------------------------------
(* client.py, http.py and cache.py: KenPomClient._get, request_json, FileCache.
   Times are in tenths of a second. A call of _get is one step when the cache has the
   payload, and otherwise one step per iteration of request_json's retry loop. *)

MaxCalls == 2

\* Settings: max_retries, backoff_base_seconds, 1 / rate_limit_rps (0 for rps <= 0) and
\* cache_ttl_seconds
ClientSettings ==
    { [max_retries |-> 0, backoff_base |-> 6, min_interval |-> 5, ttl |-> 20],
      [max_retries |-> 1, backoff_base |-> 6, min_interval |-> 10, ttl |-> 20],
      [max_retries |-> 2, backoff_base |-> 80, min_interval |-> 0, ttl |-> 0] }

\* What client.request does on one attempt: a response with a status code (and, for
\* 200, the decoded JSON body, "None" for null), or an httpx exception
Outcomes ==
    { [status |-> 200, payload |-> "A", exc |-> ""],
      [status |-> 200, payload |-> "None", exc |-> ""],
      [status |-> 401, payload |-> "", exc |-> ""],
      [status |-> 404, payload |-> "", exc |-> ""],
      [status |-> 429, payload |-> "", exc |-> ""],
      [status |-> 503, payload |-> "", exc |-> ""],
      [status |-> 0, payload |-> "", exc |-> "TimeoutException"] }

\* sleep_s without the cap
BackoffSleep_uncapped(backoff_base, attempt) == backoff_base * 2 ^ (attempt - 1)

\* http.py 84-86: sleep_s = min(backoff_base * (2 ** (attempt - 1)), 15.0)
BackoffSleep(backoff_base, attempt) == Min2(backoff_base * 2 ^ (attempt - 1), 150)

\* Every failure is retried
Retryable_all(o) == o.exc # "" \/ o.status >= 400

\* http.py 75-80: the failures the except clause catches (KenPomRateLimitError,
\* KenPomServerError, httpx.TimeoutException, httpx.TransportError)
Retryable(o) == o.exc # "" \/ o.status = 429 \/ (500 <= o.status /\ o.status <= 599)

\* FileCache.get(key) at time now: "None" without a file or for an entry older than ttl
FileCache_get(files, key, now, ttl) ==
    IF ~files[key].exists THEN "None"
    ELSE IF now - files[key].created_ts > ttl THEN "None"
    ELSE files[key].payload

\* FileCache.set(key, payload) at time now
FileCache_set(files, key, payload, now) ==
    [files EXCEPT ![key] = [exists |-> TRUE, created_ts |-> now, payload |-> payload]]

\* A KenPomClient is constructed with some settings and an empty cache directory. Its
\* cache keys, f"{base_url}{url}?{sorted(query.items())}", are those of two queries.
\* fetched remembers, for each key, the last payload a call fetched and when.
InitClient ==
    /\ disk = 0
    /\ cache = 0
    /\ ret = NoCall
    /\ seen = NoCall
    /\ tpc = << >>
    /\ tret = << >>
    /\ tcache = 0
    /\ nparsed = 0
    /\ client \in {[settings |-> st, now |-> 1000, last |-> 0, calls |-> 0, ticked |-> TRUE,
                    files |-> [key \in {<<"teams", <<"y", 2025>>>>, <<"ratings", <<"y", 2025>>>>}
                                 |-> [exists |-> FALSE, created_ts |-> 0, payload |-> "None"]],
                    fetched |-> [key \in {<<"teams", <<"y", 2025>>>>, <<"ratings", <<"y", 2025>>>>}
                                   |-> [at |-> 0 - 1, payload |-> "None"]]]
                   : st \in ClientSettings}

\* KenPomClient._get(endpoint, params) up to the call of request_json: the cached
\* payload is returned when there is one (rows holds the value _get returns)
Get(key) ==
    /\ Idle
    /\ client.calls < MaxCalls
    /\ client' = [client EXCEPT !.calls = @ + 1, !.ticked = FALSE]
    /\ \E cached \in {FileCache_get(client.files, key, client.now, client.settings.ttl)} :
          ret' = [Called("_get") EXCEPT
                    !.args = [key |-> key, start |-> client.now, files |-> client.files,
                              prior |-> client.fetched[key]],
                    !.raised = IF cached # "None" THEN "" ELSE "running",
                    !.rows = <<cached>>]
    /\ UNCHANGED <<disk, cache, seen, threadVars>>

\* One iteration of request_json's loop with outcome o of client.request, and what
\* follows it: the return through _cache.set, the raise, or the back-off sleep. log
\* lists the pauses of rate_limiter.wait(), the requests and the back-off sleeps.
RequestAttempt(o) ==
    /\ ret.op = "_get" /\ ret.raised = "running"
    /\ LET st == client.settings
           attempt == ret.attempt + 1
           \* RateLimiter.wait()
           elapsed == client.now - client.last
           pause == IF st.min_interval > 0 /\ elapsed < st.min_interval
                    THEN st.min_interval - elapsed ELSE 0
           requested == client.now + pause
           last == IF st.min_interval > 0 THEN requested ELSE client.last
           \* the request takes a tenth of a second
           responded == requested + 1
           log == ret.log \o (IF pause > 0 THEN <<[e |-> "wait", s |-> pause]>> ELSE << >>)
                          \o <<[e |-> "request", s |-> o.status]>>
           sleep_s == BackoffSleep(st.backoff_base, attempt)
       IN IF ret.attempt > st.max_retries
          THEN \* the loop is not entered
               /\ ret' = [ret EXCEPT !.raised = "KenPomClientError",
                                     !.error = <<"Request ultimately failed">>]
               /\ UNCHANGED client
          ELSE IF Retryable(o)
          THEN IF attempt > st.max_retries
               THEN /\ ret' = [ret EXCEPT !.attempt = attempt, !.log = log,
                                          !.raised = "KenPomClientError",
                                          !.error = <<"Request ultimately failed">>]
                    /\ client' = [client EXCEPT !.now = responded, !.last = last]
               ELSE /\ ret' = [ret EXCEPT !.attempt = attempt,
                                          !.log = log \o <<[e |-> "sleep", s |-> sleep_s]>>]
                    /\ client' = [client EXCEPT !.now = responded + sleep_s, !.last = last]
          ELSE IF o.status \in {401, 403}
          THEN /\ ret' = [ret EXCEPT !.attempt = attempt, !.log = log,
                                     !.raised = "KenPomAuthError",
                                     !.error = <<"Auth failed", o.status>>]
               /\ client' = [client EXCEPT !.now = responded, !.last = last]
          ELSE IF 400 <= o.status /\ o.status <= 499
          THEN /\ ret' = [ret EXCEPT !.attempt = attempt, !.log = log,
                                     !.raised = "KenPomClientError",
                                     !.error = <<"Client error", o.status>>]
               /\ client' = [client EXCEPT !.now = responded, !.last = last]
          ELSE /\ ret' = [ret EXCEPT !.attempt = attempt, !.log = log, !.raised = "",
                                     !.rows = <<o.payload>>]
               /\ client' = [client EXCEPT
                               !.now = responded, !.last = last,
                               !.files = FileCache_set(@, ret.args.key, o.payload, responded),
                               !.fetched[ret.args.key] = [at |-> responded,
                                                          payload |-> o.payload]]
    /\ UNCHANGED <<disk, cache, seen, threadVars>>

\* Some time passes between two calls
Tick(dt) ==
    /\ Idle
    /\ ~client.ticked /\ client.calls < MaxCalls
    /\ client' = [client EXCEPT !.now = @ + dt, !.ticked = TRUE]
    /\ UNCHANGED <<disk, cache, ret, seen, threadVars>>

NextClient ==
    \/ \E key \in DOMAIN client.files : Get(key)
    \/ \E o \in Outcomes : RequestAttempt(o)
    \/ \E dt \in {15, 30} : Tick(dt)
    \/ (ret.raised # "running" /\ Discard)

\* request_json's loop goes on: a request returns or times out, and a sleep ends
SpecClient ==
    InitClient /\ [][NextClient]_vars /\ WF_vars(\E o \in Outcomes : RequestAttempt(o))

(* Claims about request_json and the cache *)

\* The requests, the back-off sleeps and all calls of time.sleep of the current call
RequestsOf(log) == SelectSeq(log, LAMBDA x : x.e = "request")

BackoffsOf(log) == SelectSeq(log, LAMBDA x : x.e = "sleep")

SleepsOf(log) == SelectSeq(log, LAMBDA x : x.e \in {"sleep", "wait"})

InRequestJson == ret.op = "_get" /\ Len(ret.log) > 0

Running == ret.op = "_get" /\ ret.raised = "running"

AllRetryableFailures ==
    \A i \in 1..Len(ret.log) : ret.log[i].e = "request" => ret.log[i].s \in {429, 503, 0}

\* What C27 says of a sequence of sleeps: max_retries of them, the i-th of
\* min(backoff_base * 2^(i-1), 15.0) seconds, none after the last request
ExhaustedAfter(sleeps) ==
    /\ ret.raised = "KenPomClientError"
    /\ Len(RequestsOf(ret.log)) = client.settings.max_retries + 1
    /\ Len(sleeps) = client.settings.max_retries
    /\ \A i \in 1..Len(sleeps) :
          sleeps[i].s = Min2(client.settings.backoff_base * 2 ^ (i - 1), 150)
    /\ ret.log[Len(ret.log)].e = "request"

\* C27 as stated: request_json issues at most max_retries + 1 requests, and when every
\* attempt fails with a retryable failure it raises KenPomClientError after exactly
\* max_retries + 1 requests and exactly max_retries sleeps, each of
\* min(backoff_base * 2^(attempt-1), 15.0) seconds, none after the last attempt.
C27_ExactlyMaxRetriesSleeps ==
    InRequestJson =>
      /\ Len(RequestsOf(ret.log)) <= client.settings.max_retries + 1
      /\ (~Running /\ AllRetryableFailures) => ExhaustedAfter(SleepsOf(ret.log))

C27_BackoffInvariant ==
    InRequestJson =>
      /\ Len(RequestsOf(ret.log)) <= client.settings.max_retries + 1
      /\ (~Running /\ AllRetryableFailures) => ExhaustedAfter(BackoffsOf(ret.log))

\* C27 amended: request_json always terminates after at most max_retries + 1 requests,
\* and when every attempt fails with a retryable failure it raises KenPomClientError
\* after exactly max_retries + 1 requests and exactly max_retries back-off sleeps, the
\* i-th of min(backoff_base * 2^(i-1), 15.0) seconds, none after the last attempt; the
\* pauses of the rate limiter before a request are not among these sleeps.
C27_TerminatesWithBackoffSleeps == [](C27_BackoffInvariant) /\ (Running ~> ~Running)

\* Two retries were used up and the second sleep was capped at 15 seconds
C27_Witness ==
    /\ InRequestJson /\ ~Running /\ AllRetryableFailures
    /\ ret.raised = "KenPomClientError"
    /\ Len(BackoffsOf(ret.log)) = 2
    /\ BackoffsOf(ret.log)[2].s = 150
    /\ client.settings.backoff_base * 2 > 150

\* C28: a 401/403 response or any other 4xx response but 429 ends request_json on that
\* attempt: KenPomAuthError or KenPomClientError propagates to the caller, with no
\* sleep and no further request after that response, whatever max_retries is.
C28_ClientErrorsAreNotRetried ==
    InRequestJson =>
      \A i \in 1..Len(ret.log) :
         (/\ ret.log[i].e = "request"
          /\ 400 <= ret.log[i].s /\ ret.log[i].s <= 499 /\ ret.log[i].s # 429)
         => /\ i = Len(ret.log)
            /\ ret.raised = (IF ret.log[i].s \in {401, 403} THEN "KenPomAuthError"
                             ELSE "KenPomClientError")
            /\ ret.error[2] = ret.log[i].s

\* A 401 came on a retry, with retries left
C28_Witness ==
    /\ InRequestJson
    /\ ret.raised = "KenPomAuthError"
    /\ Len(RequestsOf(ret.log)) = 2
    /\ ret.attempt <= client.settings.max_retries

\* The call did not go to the network
FromCache == ret.op = "_get" /\ Len(ret.log) = 0 /\ ret.raised = ""

\* C29: once a call has fetched a payload for a key, every later call with that key
\* made within the TTL returns that payload without a request; a call whose request
\* fails writes nothing to the cache; FileCache.get returns no entry older than the TTL.
C29_CacheServesFetchedPayloads ==
    (ret.op = "_get" /\ ~Running) =>
      /\ (ret.args.prior.at >= 0
            /\ ret.args.start - ret.args.prior.at <= client.settings.ttl)
         => (FromCache /\ ret.rows = <<ret.args.prior.payload>>)
      /\ ret.raised # "" => client.files = ret.args.files
      /\ FromCache =>
            /\ ret.args.files[ret.args.key].exists
            /\ ret.args.start - ret.args.files[ret.args.key].created_ts
                 <= client.settings.ttl
            /\ ret.rows = <<ret.args.files[ret.args.key].payload>>

====
